---- MODULE Spec2Model ----
(***************************************************************************)
(* File system indexer and search engine (src/main.py): the metadata      *)
(* store, the directory scan, the query parser and the search strategies. *)
(* Text is modelled as sequences of one-character strings, so that the    *)
(* regular expressions, LIKE patterns and substring tests of the source   *)
(* are computed character by character.                                   *)
(***************************************************************************)
EXTENDS Integers, Sequences, FiniteSets, TLC

(***************************************************************************)
(* Characters and the string methods of Python the source uses.           *)
(***************************************************************************)
Digits == {"0","1","2","3","4","5","6","7","8","9"}

Whitespace == {" ", "\t"}

UpperCase == {"A","B","C","D","E","F","G","H","I","J","K","L","M",
              "N","O","P","Q","R","S","T","U","V","W","X","Y","Z"}

LowerOf == [c \in UpperCase |->
    CASE c = "A" -> "a" [] c = "B" -> "b" [] c = "C" -> "c" [] c = "D" -> "d"
      [] c = "E" -> "e" [] c = "F" -> "f" [] c = "G" -> "g" [] c = "H" -> "h"
      [] c = "I" -> "i" [] c = "J" -> "j" [] c = "K" -> "k" [] c = "L" -> "l"
      [] c = "M" -> "m" [] c = "N" -> "n" [] c = "O" -> "o" [] c = "P" -> "p"
      [] c = "Q" -> "q" [] c = "R" -> "r" [] c = "S" -> "s" [] c = "T" -> "t"
      [] c = "U" -> "u" [] c = "V" -> "v" [] c = "W" -> "w" [] c = "X" -> "x"
      [] c = "Y" -> "y" [] c = "Z" -> "z"]

LowerChar(c) == IF c \in UpperCase THEN LowerOf[c] ELSE c

RECURSIVE Lower(_)
\* str.lower()
Lower(s) == IF s = <<>> THEN <<>> ELSE <<LowerChar(Head(s))>> \o Lower(Tail(s))

DigitVal(c) ==
    CASE c = "0" -> 0 [] c = "1" -> 1 [] c = "2" -> 2 [] c = "3" -> 3
      [] c = "4" -> 4 [] c = "5" -> 5 [] c = "6" -> 6 [] c = "7" -> 7
      [] c = "8" -> 8 [] c = "9" -> 9

RECURSIVE ToInt(_)
\* int(s) of a run of decimal digits
ToInt(s) ==
    IF s = <<>> THEN 0
    ELSE 10 * ToInt(SubSeq(s, 1, Len(s) - 1)) + DigitVal(s[Len(s)])

RECURSIVE Pow10(_)
Pow10(k) == IF k = 0 THEN 1 ELSE 10 * Pow10(k - 1)

\* s[i:i+len(w)] == w
StartsAt(s, i, w) ==
    /\ i >= 1
    /\ i + Len(w) - 1 <= Len(s)
    /\ \A k \in 1..Len(w) : s[i + k - 1] = w[k]

\* str.startswith / str.endswith
StartsWith(s, w) == StartsAt(s, 1, w)

EndsWith(s, w) == StartsAt(s, Len(s) - Len(w) + 1, w)

\* w in s
Contains(s, w) == \E i \in 1..(Len(s) + 1) : StartsAt(s, i, w)

RECURSIVE CountFrom(_, _, _)
CountFrom(s, w, i) ==
    IF i + Len(w) - 1 > Len(s) THEN 0
    ELSE IF StartsAt(s, i, w) THEN 1 + CountFrom(s, w, i + Len(w))
    ELSE CountFrom(s, w, i + 1)

\* s.count(w): non-overlapping occurrences, w non-empty
Count(s, w) == CountFrom(s, w, 1)

RECURSIVE LStrip(_)
LStrip(s) == IF s # <<>> /\ Head(s) \in Whitespace THEN LStrip(Tail(s)) ELSE s

RECURSIVE RStrip(_)
RStrip(s) ==
    IF s # <<>> /\ s[Len(s)] \in Whitespace
    THEN RStrip(SubSeq(s, 1, Len(s) - 1)) ELSE s

\* str.strip()
Strip(s) == LStrip(RStrip(s))

RECURSIVE RStripChar(_, _)
\* str.rstrip(c)
RStripChar(s, c) ==
    IF s # <<>> /\ s[Len(s)] = c
    THEN RStripChar(SubSeq(s, 1, Len(s) - 1), c) ELSE s

RECURSIVE SplitOn(_, _, _)
\* the maximal runs of s without a character of seps, in order; cur is the
\* run being read
SplitOn(s, seps, cur) ==
    IF s = <<>> THEN (IF cur = <<>> THEN <<>> ELSE <<cur>>)
    ELSE IF Head(s) \in seps
         THEN (IF cur = <<>> THEN <<>> ELSE <<cur>>) \o SplitOn(Tail(s), seps, <<>>)
         ELSE SplitOn(Tail(s), seps, Append(cur, Head(s)))

\* str.split()
Split(s) == SplitOn(s, Whitespace, <<>>)

RECURSIVE Flatten(_)
Flatten(ss) == IF ss = <<>> THEN <<>> ELSE Head(ss) \o Flatten(Tail(ss))

(***************************************************************************)
(* Regular expressions of the re module: a backtracking matcher.  Match    *)
(* gives the end positions of the matches of r that start at i, in the     *)
(* order re tries them (greedy repetition, alternatives left to right), so *)
(* the head is the match re returns.                                       *)
(***************************************************************************)
Lit(w) == [t |-> "lit", w |-> w]

Cls(cs) == [t |-> "cls", cs |-> cs]

AnyChar == [t |-> "any"]

Cat(rs) == [t |-> "cat", rs |-> rs]

Alt(rs) == [t |-> "alt", rs |-> rs]

Star(r) == [t |-> "star", r |-> r]

Plus(r) == Cat(<<r, Star(r)>>)

Opt(r) == Alt(<<r, Lit(<<>>)>>)

RECURSIVE Match(_, _, _), MatchCat(_, _, _, _), MatchStar(_, _, _)
Match(r, s, i) ==
    CASE r.t = "lit" -> IF StartsAt(s, i, r.w) THEN <<i + Len(r.w)>> ELSE <<>>
      [] r.t = "cls" -> IF i <= Len(s) /\ s[i] \in r.cs THEN <<i + 1>> ELSE <<>>
      [] r.t = "any" -> IF i <= Len(s) THEN <<i + 1>> ELSE <<>>
      [] r.t = "cat" -> MatchCat(r.rs, 1, s, i)
      [] r.t = "alt" -> Flatten([k \in 1..Len(r.rs) |-> Match(r.rs[k], s, i)])
      [] r.t = "star" -> MatchStar(r.r, s, i)

MatchCat(rs, k, s, i) ==
    IF k > Len(rs) THEN <<i>>
    ELSE LET M == Match(rs[k], s, i)
         IN  Flatten([j \in 1..Len(M) |-> MatchCat(rs, k + 1, s, M[j])])

MatchStar(r, s, i) ==
    LET M == SelectSeq(Match(r, s, i), LAMBDA e : e > i)
    IN  Flatten([j \in 1..Len(M) |-> MatchStar(r, s, M[j])]) \o <<i>>

NoMatch == [found |-> FALSE, start |-> 0, end |-> 0]

\* re.search(r, s): the leftmost match, as the positions [start, end)
ReSearch(r, s) ==
    LET starts == {i \in 1..(Len(s) + 1) : Match(r, s, i) # <<>>}
    IN  IF starts = {} THEN NoMatch
        ELSE LET i == CHOOSE x \in starts : \A y \in starts : x <= y
             IN  [found |-> TRUE, start |-> i, end |-> Head(Match(r, s, i))]

RECURSIVE ReSubFrom(_, _, _)
ReSubFrom(r, s, i) ==
    IF i > Len(s) THEN <<>>
    ELSE LET M == Match(r, s, i)
         IN  IF M # <<>> /\ Head(M) > i
             THEN ReSubFrom(r, s, Head(M))
             ELSE <<s[i]>> \o ReSubFrom(r, s, i + 1)

\* re.sub(r, '', s): every non-overlapping match removed, left to right
ReSub(r, s) == ReSubFrom(r, s, 1)

RECURSIVE ReSubSpaceFrom(_, _)
ReSubSpaceFrom(s, i) ==
    IF i > Len(s) THEN <<>>
    ELSE IF s[i] \in Whitespace
         THEN <<" ">> \o ReSubSpaceFrom(s, Head(Match(Star(Cls(Whitespace)), s, i)))
         ELSE <<s[i]>> \o ReSubSpaceFrom(s, i + 1)

\* re.sub(r'\s+', ' ', s)
CollapseSpaces(s) == ReSubSpaceFrom(s, 1)

WS1 == Plus(Cls(Whitespace))

WS0 == Star(Cls(Whitespace))

\* \d+
DigitRun == Plus(Cls(Digits))

\* \d+(?:\.\d+)?
Number == Cat(<<DigitRun, Opt(Cat(<<Lit(<<".">>), DigitRun>>))>>)

\* (kb|mb|gb|tb)
SizeUnit == Alt(<<Lit(<<"k","b">>), Lit(<<"m","b">>), Lit(<<"g","b">>), Lit(<<"t","b">>)>>)

\* (hour|hours|day|days|week|weeks|month|months)
TimeUnit == Alt(<<Lit(<<"h","o","u","r">>), Lit(<<"h","o","u","r","s">>), Lit(<<"d","a","y">>), Lit(<<"d","a","y","s">>),
                  Lit(<<"w","e","e","k">>), Lit(<<"w","e","e","k","s">>), Lit(<<"m","o","n","t","h">>), Lit(<<"m","o","n","t","h","s">>)>>)

\* the text of the first match of r in s at or after position i (a group of
\* the enclosing match); <<>> when there is none
GroupFrom(r, s, i) ==
    LET m == ReSearch(r, SubSeq(s, i, Len(s)))
    IN  IF m.found THEN SubSeq(s, i + m.start - 1, i + m.end - 2) ELSE <<>>

(***************************************************************************)
(* QueryParser: parse_time_constraint and parse_size_constraint.           *)
(***************************************************************************)
\* datetime.now().timestamp() at the time of a search, in seconds
Now == 1000000

\* (?:in\s+the\s+)?last\s+(\d+)\s+(hour|hours|day|days|week|weeks|month|months)
time_pattern ==
    Cat(<<Opt(Cat(<<Lit(<<"i","n">>), WS1, Lit(<<"t","h","e">>), WS1>>)),
          Lit(<<"l","a","s","t">>), WS1, DigitRun, WS1, TimeUnit>>)

NoTime == [some |-> FALSE, field |-> "", cutoff |-> 0]

delta_seconds(value, unit) ==
    CASE unit = <<"h","o","u","r">> -> value * 3600
      [] unit = <<"d","a","y">> -> value * 86400
      [] unit = <<"w","e","e","k">> -> value * 604800
      [] unit = <<"m","o","n","t","h">> -> value * 2592000

\* a choice of the field that does not read the query
time_field_default(query_lower) == "modified_time"

time_field(query_lower) ==
    IF Contains(query_lower, <<"c","r","e","a","t","e","d">>) \/ Contains(query_lower, <<"c","r","e","a","t","i","o","n">>)
    THEN "created_time"
    ELSE IF Contains(query_lower, <<"m","o","d","i","f","i","e","d">>)
            \/ Contains(query_lower, <<"m","o","d","i","f","i","c","a","t","i","o","n">>)
            \/ Contains(query_lower, <<"c","h","a","n","g","e","d">>)
    THEN "modified_time"
    ELSE IF Contains(query_lower, <<"a","c","c","e","s","s","e","d">>) \/ Contains(query_lower, <<"a","c","c","e","s","s">>)
    THEN "accessed_time"
    ELSE "modified_time"

parse_time(query) ==
    LET query_lower == Lower(query)
        match == ReSearch(time_pattern, query_lower)
        group1 == GroupFrom(DigitRun, query_lower, match.start)
        afterNumber == match.start
                       + ReSearch(DigitRun,
                                  SubSeq(query_lower, match.start, Len(query_lower))).end - 1
        group2 == GroupFrom(TimeUnit, query_lower, afterNumber)
        unit == RStripChar(group2, "s")
    IN  IF match.found
        THEN [some |-> TRUE, field |-> time_field(query_lower),
              cutoff |-> Now - delta_seconds(ToInt(group1), unit)]
        ELSE NoTime

\* the phrasings of a size constraint, in the order they are tried; the
\* operator "" stands for None (the operator word decides)
SizeThan(word, op) ==
    [re |-> Cat(<<Lit(word), WS1, Lit(<<"t","h","a","n">>), WS1, Number, WS0, SizeUnit>>), op |-> op]

SizeOr(word, op) ==
    [re |-> Cat(<<Number, WS0, SizeUnit, WS1, Lit(<<"o","r">>), WS1, Lit(word)>>), op |-> op]

SizeOp(sym, op) ==
    [re |-> Cat(<<Lit(sym), WS0, Number, WS0, SizeUnit>>), op |-> op]

OpWord == Alt(<<Lit(<<"l","e","s","s">>), Lit(<<"s","m","a","l","l","e","r">>), Lit(<<"g","r","e","a","t","e","r">>), Lit(<<"l","a","r","g","e","r">>),
                Lit(<<"b","i","g","g","e","r">>)>>)

\* the list with every "or less/smaller" phrasing before every "or more" one
size_patterns_listed == <<
    SizeThan(<<"s","m","a","l","l","e","r">>, "<"),
    SizeThan(<<"l","e","s","s">>, "<"),
    SizeThan(<<"l","a","r","g","e","r">>, ">"),
    SizeThan(<<"g","r","e","a","t","e","r">>, ">"),
    SizeThan(<<"b","i","g","g","e","r">>, ">"),
    [re |-> Cat(<<Lit(<<"e","q","u","a","l">>), WS1, Lit(<<"t","o">>), WS1, Number, WS0, SizeUnit>>), op |-> "="],
    SizeOr(<<"l","e","s","s">>, "<="),
    SizeOr(<<"s","m","a","l","l","e","r">>, "<="),
    SizeOr(<<"m","o","r","e">>, ">="),
    SizeOr(<<"l","a","r","g","e","r">>, ">="),
    SizeOr(<<"b","i","g","g","e","r">>, ">="),
    SizeOp(<<"<">>, "<"),
    SizeOp(<<">">>, ">"),
    SizeOp(<<"<","=">>, "<="),
    SizeOp(<<">","=">>, ">="),
    SizeOp(<<"=">>, "="),
    [re |-> Cat(<<Lit(<<"f","i","l","e">>), Opt(Lit(<<"s">>)), WS1, OpWord, WS1, Lit(<<"t","h","a","n">>), WS1,
                  Number, WS0, SizeUnit>>), op |-> ""] >>

\* the list in the order of the source
size_patterns == <<
    SizeThan(<<"s","m","a","l","l","e","r">>, "<"),
    SizeThan(<<"l","e","s","s">>, "<"),
    SizeThan(<<"l","a","r","g","e","r">>, ">"),
    SizeThan(<<"g","r","e","a","t","e","r">>, ">"),
    SizeThan(<<"b","i","g","g","e","r">>, ">"),
    [re |-> Cat(<<Lit(<<"e","q","u","a","l">>), WS1, Lit(<<"t","o">>), WS1, Number, WS0, SizeUnit>>), op |-> "="],
    SizeOr(<<"l","e","s","s">>, "<="),
    SizeOr(<<"m","o","r","e">>, ">="),
    SizeOr(<<"s","m","a","l","l","e","r">>, "<="),
    SizeOr(<<"l","a","r","g","e","r">>, ">="),
    SizeOr(<<"b","i","g","g","e","r">>, ">="),
    SizeOp(<<"<">>, "<"),
    SizeOp(<<">">>, ">"),
    SizeOp(<<"<","=">>, "<="),
    SizeOp(<<">","=">>, ">="),
    SizeOp(<<"=">>, "="),
    [re |-> Cat(<<Lit(<<"f","i","l","e">>), Opt(Lit(<<"s">>)), WS1, OpWord, WS1, Lit(<<"t","h","a","n">>), WS1,
                  Number, WS0, SizeUnit>>), op |-> ""] >>

\* the multipliers, as powers of 1024 (1024^4 is beyond the integers of the
\* checker, so that the product is formed one factor at a time)
multipliers(unit) ==
    CASE unit = <<"k","b">> -> 1
      [] unit = <<"m","b">> -> 2
      [] unit = <<"g","b">> -> 3
      [] unit = <<"t","b">> -> 4

\* int(float(text) * 1024^power) for text = digits or digits.digits: the
\* value is held as whole + rest / 10^(digits of the fraction) while it is
\* multiplied, and the whole part is what int() keeps
ScaledInt(text, power) ==
    LET parts == SplitOn(text, {"."}, <<>>)
        frac == IF Len(parts) > 1 THEN parts[2] ELSE <<>>
        scale == Pow10(Len(frac))
        times[k \in 0..power] ==
            IF k = 0 THEN <<ToInt(parts[1]), ToInt(frac)>>
            ELSE <<times[k - 1][1] * 1024 + (times[k - 1][2] * 1024) \div scale,
                   (times[k - 1][2] * 1024) % scale>>
    IN  times[power][1]

NoSize == [some |-> FALSE, operator |-> "", size_bytes |-> 0]

parse_size(query) ==
    LET query_lower == Lower(query)
        hits == {k \in 1..Len(size_patterns) :
                    ReSearch(size_patterns[k].re, query_lower).found}
    IN  IF hits = {} THEN NoSize
        ELSE LET k == CHOOSE x \in hits : \A y \in hits : x <= y
                 match == ReSearch(size_patterns[k].re, query_lower)
                 rest == SubSeq(query_lower, match.start, Len(query_lower))
                 number == ReSearch(Number, rest)
                 value == SubSeq(rest, number.start, number.end - 1)
                 unit == GroupFrom(SizeUnit, rest, number.end)
                 op_word == GroupFrom(OpWord, rest, 1)
                 operator ==
                    IF size_patterns[k].op # "" THEN size_patterns[k].op
                    ELSE IF op_word \in {<<"l","e","s","s">>, <<"s","m","a","l","l","e","r">>} THEN "<" ELSE ">"
             IN  [some |-> TRUE, operator |-> operator,
                  size_bytes |-> CHOOSE bytes \in {ScaledInt(v, multipliers(u)) :
                                                       v \in {value}, u \in {unit}} : TRUE]

\* file_size OP size_bytes
SizeHolds(file_size, operator, size_bytes) ==
    CASE operator = "<" -> file_size < size_bytes
      [] operator = ">" -> file_size > size_bytes
      [] operator = "<=" -> file_size <= size_bytes
      [] operator = ">=" -> file_size >= size_bytes
      [] operator = "=" -> file_size = size_bytes

\* (less|greater|equal|smaller|larger|bigger)\s+than\s+\d+(?:\.\d+)?\s*(kb|mb|gb|tb)
than_phrase ==
    Cat(<<Alt(<<Lit(<<"l","e","s","s">>), Lit(<<"g","r","e","a","t","e","r">>), Lit(<<"e","q","u","a","l">>), Lit(<<"s","m","a","l","l","e","r">>),
                Lit(<<"l","a","r","g","e","r">>), Lit(<<"b","i","g","g","e","r">>)>>),
          WS1, Lit(<<"t","h","a","n">>), WS1, Number, WS0, SizeUnit>>)

\* files?\s+
files_prefix == Cat(<<Lit(<<"f","i","l","e">>), Opt(Lit(<<"s">>)), WS1>>)

\* the residual text of _metadata_search
metadata_clean(query) ==
    LET q0 == Lower(query)
        q1 == ReSub(time_pattern, q0)
        q2 == ReSub(than_phrase, q1)
        \* \d+(?:\.\d+)?\s*(kb|mb|gb|tb).*
        q3 == ReSub(Cat(<<Number, WS0, SizeUnit, Star(AnyChar)>>), q2)
        q4 == ReSub(files_prefix, q3)
    IN  Strip(CollapseSpaces(q4))

\* the residual text of _fuzzy_search
fuzzy_clean(query) ==
    LET q0 == Lower(query)
        q1 == IF parse_time(query).some THEN ReSub(time_pattern, q0) ELSE q0
        q2 == IF parse_size(query).some
              THEN LET a == ReSub(than_phrase, q1)
                       \* [<>=]+\s*\d+(?:\.\d+)?\s*(kb|mb|gb|tb)
                       b == ReSub(Cat(<<Plus(Cls({"<", ">", "="})), WS0, Number, WS0,
                                        SizeUnit>>), a)
                       \* \d+(?:\.\d+)?\s*(kb|mb|gb|tb)(?:\s+or\s+(less|more|smaller|larger|bigger))?
                   IN  ReSub(Cat(<<Number, WS0, SizeUnit,
                                   Opt(Cat(<<WS1, Lit(<<"o","r">>), WS1,
                                             Alt(<<Lit(<<"l","e","s","s">>), Lit(<<"m","o","r","e">>),
                                                   Lit(<<"s","m","a","l","l","e","r">>), Lit(<<"l","a","r","g","e","r">>),
                                                   Lit(<<"b","i","g","g","e","r">>)>>)>>))>>), b)
              ELSE q1
        q3 == ReSub(files_prefix, q2)
    IN  Strip(CollapseSpaces(q3))

RECURSIVE LikeMatch(_, _)
\* text LIKE pattern in SQLite: % is any run, _ any one character, letters
\* compare without case
LikeMatch(pattern, text) ==
    IF pattern = <<>> THEN text = <<>>
    ELSE IF Head(pattern) = "%"
         THEN \E k \in 0..Len(text) : LikeMatch(Tail(pattern), SubSeq(text, k + 1, Len(text)))
         ELSE /\ text # <<>>
              /\ \/ Head(pattern) = "_"
                 \/ LowerChar(Head(pattern)) = LowerChar(Head(text))
              /\ LikeMatch(Tail(pattern), Tail(text))

(***************************************************************************)
(* The directory tree that is scanned.  The files of Volatile can vanish   *)
(* and come back at any moment: a file that is absent when its directory   *)
(* is read is not listed, and os.stat fails for a listed file that is      *)
(* absent when the loop comes to it.                                       *)
(***************************************************************************)
RootR == <<"/","r">>

RootSub == <<"/","r","/","s","u","b">>

\* a directory of twenty files, twice what the scan counts between two
\* counters messages; the twentieth is a file the filter rejects
RootBig == <<"/","b","i","g">>

BigNames == [k \in 1..20 |-> IF k = 20 THEN <<"t",".","t","m","p">>
                              ELSE <<<<"a","b","c","d","e","f","g","h","i","j","k","l","m","n","o","p","q","r","s">>[k]>> \o <<".","c">>]

NoDir == <<"/","x">>

\* os.path.join(dirpath, name)
Join(dirpath, name) == dirpath \o <<"/">> \o name

\* os.scandir of each directory: child directories and files, in order
Tree(dirpath) ==
    CASE dirpath = RootR ->
            [dirnames |-> << <<"s","u","b">>, <<"n","o","d","e","_","m","o","d","u","l","e","s">> >>,
             filenames |-> << <<"a",".","t","x","t">>, <<"B",".","p","y">>, <<"t",".","t","m","p">> >>]
      [] dirpath = RootSub ->
            [dirnames |-> <<>>, filenames |-> << <<"c",".","t","x","t">> >>]
      [] dirpath = Join(RootR, <<"n","o","d","e","_","m","o","d","u","l","e","s">>) ->
            [dirnames |-> <<>>, filenames |-> << <<"x",".","j","s">> >>]
      [] dirpath = RootBig -> [dirnames |-> <<>>, filenames |-> BigNames]
      [] OTHER -> [dirnames |-> <<>>, filenames |-> <<>>]

Directories == {RootR, RootSub, Join(RootR, <<"n","o","d","e","_","m","o","d","u","l","e","s">>), RootBig}

\* os.path.isdir(path)
IsDir(path) == path \in Directories

PathA == Join(RootR, <<"a",".","t","x","t">>)

PathB == Join(RootR, <<"B",".","p","y">>)

PathC == Join(RootSub, <<"c",".","t","x","t">>)

Volatile == {PathA, PathC}

FileStates == {"ok", "absent"}

\* os.stat(file_path) of a file that is there: st_size, st_ctime, st_mtime, st_atime
StatInfo(file_path) ==
    CASE file_path = PathA ->
            [st_size |-> 100, st_ctime |-> Now - 300000, st_mtime |-> Now - 1000,
             st_atime |-> Now - 500]
      [] file_path = PathB ->
            [st_size |-> 2 * 1024 * 1024, st_ctime |-> Now - 200000,
             st_mtime |-> Now - 200000, st_atime |-> Now - 200000]
      [] file_path = PathC ->
            [st_size |-> 5000, st_ctime |-> Now - 100000, st_mtime |-> Now - 100000,
             st_atime |-> Now - 400000]
      [] OTHER ->
            [st_size |-> 10, st_ctime |-> Now - 10, st_mtime |-> Now - 10,
             st_atime |-> Now - 10]

(***************************************************************************)
(* PathFilter: should_ignore_path.                                         *)
(***************************************************************************)
\* Path(path).parts of an absolute path
Parts(path) == <<<<"/">>>> \o SplitOn(path, {"/"}, <<>>)

\* os.path.basename(path)
Basename(path) == LET p == SplitOn(path, {"/"}, <<>>) IN p[Len(p)]

ignore_dirs == {
    <<"v","e","n","v">>, <<".","v","e","n","v">>, <<"e","n","v">>, <<".","e","n","v">>, <<"v","i","r","t","u","a","l","e","n","v">>, <<".","v","i","r","t","u","a","l","e","n","v">>,
    <<"e","n","v",".","b","a","k">>, <<"v","e","n","v",".","b","a","k">>,
    <<"n","o","d","e","_","m","o","d","u","l","e","s">>, <<".","n","p","m">>, <<".","y","a","r","n">>, <<".","y","a","r","n","-","c","a","c","h","e">>,
    <<"_","_","p","y","c","a","c","h","e","_","_">>, <<".","p","y","t","e","s","t","_","c","a","c","h","e">>, <<".","m","y","p","y","_","c","a","c","h","e">>, <<".","r","u","f","f","_","c","a","c","h","e">>,
    <<".","t","o","x">>, <<".","c","o","v","e","r","a","g","e">>, <<"h","t","m","l","c","o","v">>, <<".","h","y","p","o","t","h","e","s","i","s">>, <<".","c","a","c","h","e">>,
    <<"b","u","i","l","d">>, <<"d","i","s","t">>, <<".","e","g","g","s">>,
    <<".","i","d","e","a">>, <<".","v","s","c","o","d","e">>, <<".","v","s">>, <<".","s","u","b","l","i","m","e","-","p","r","o","j","e","c","t">>, <<".","s","u","b","l","i","m","e","-","w","o","r","k","s","p","a","c","e">>,
    <<".","g","i","t">>, <<".","s","v","n">>, <<".","h","g">>, <<".","b","z","r">>,
    <<".","p","i","p">>, <<".","c","o","n","d","a">>,
    <<".","n","e","x","t">>, <<".","n","u","x","t">>, <<".","o","u","t","p","u","t">>, <<".","t","e","m","p">>, <<".","t","m","p">>,
    <<"c","o","v","e","r","a","g","e">>, <<".","n","y","c","_","o","u","t","p","u","t">>, <<".","p","a","r","c","e","l","-","c","a","c","h","e">>,
    <<"l","o","g","s">> }

\* the hidden names that are kept
allowed_hidden == { <<".","g","i","t","i","g","n","o","r","e">>, <<".","g","i","t","a","t","t","r","i","b","u","t","e","s">>, <<".","e","d","i","t","o","r","c","o","n","f","i","g">>,
                    <<".","p","r","e","-","c","o","m","m","i","t","-","c","o","n","f","i","g",".","y","a","m","l">> }

system_files == { <<".","d","s","_","s","t","o","r","e">>, <<"t","h","u","m","b","s",".","d","b">>, <<"d","e","s","k","t","o","p",".","i","n","i">>, <<".","d","i","r","e","c","t","o","r","y">>,
                  <<".","l","o","c","a","l","i","z","e","d">>, <<".","t","r","a","s","h">>, <<".","t","r","a","s","h","e","s">> }

lock_files == { <<"p","a","c","k","a","g","e","-","l","o","c","k",".","j","s","o","n">>, <<"y","a","r","n",".","l","o","c","k">>, <<"p","o","e","t","r","y",".","l","o","c","k">>, <<"p","i","p","f","i","l","e",".","l","o","c","k">> }

\* the decision of the loop over the path's parts
PartIgnored(part, is_directory) ==
    /\ part \notin { <<".">>, <<".",".">> }
    /\ \/ part \in ignore_dirs
       \/ EndsWith(part, <<".","e","g","g","-","i","n","f","o">>)
       \/ /\ StartsWith(part, <<".">>)
          /\ is_directory
          /\ part \notin allowed_hidden
          /\ Len(part) > 1

\* the file patterns, tried when no part decides
FileIgnored(path, path_parts) ==
    LET filename_lower == Lower(Basename(path))
        EndsAny(ws) == \E w \in ws : EndsWith(filename_lower, w)
    IN  \/ filename_lower \in system_files
        \/ EndsAny({ <<".","p","y","c">>, <<".","p","y","o">>, <<".","p","y","d">> })
        \/ EndsAny({ <<".","b","a","k">>, <<".","t","m","p">>, <<".","t","e","m","p">>, <<".","s","w","p">>, <<".","s","w","o">>, <<"~">> })
        \/ filename_lower \in lock_files
        \/ /\ EndsAny({ <<".","s","o">>, <<".","d","y","l","i","b">>, <<".","d","l","l">>, <<".","e","x","e">> })
           /\ \E k \in 1..Len(path_parts) :
                 path_parts[k] \in { <<"n","o","d","e","_","m","o","d","u","l","e","s">>, <<"v","e","n","v">>, <<".","v","e","n","v">>, <<"e","n","v">>, <<".","e","n","v">> }

\* a filter that looks at the last segment only
should_ignore_name(path, is_directory) ==
    LET path_parts == [k \in 1..Len(Parts(path)) |-> Lower(Parts(path)[k])]
    IN  \/ PartIgnored(path_parts[Len(path_parts)], is_directory)
        \/ ~is_directory /\ FileIgnored(path, path_parts)

\* The last test of the source (an environment marker file under a parent
\* named venv, .venv, env, .env or virtualenv) is reached only when no part
\* is in ignore_dirs, and these five names are in ignore_dirs: it never
\* decides.
should_ignore_path(path, is_directory) ==
    LET path_parts == [k \in 1..Len(Parts(path)) |-> Lower(Parts(path)[k])]
    IN  \/ \E k \in 1..Len(path_parts) : PartIgnored(path_parts[k], is_directory)
        \/ ~is_directory /\ FileIgnored(path, path_parts)

\* a walk that goes down into every child directory
DirKept(dirpath, d) == FALSE

\* the test of a child directory d of dirpath before the walk descends
DirPruned(dirpath, d) ==
    \/ should_ignore_path(Join(dirpath, d), TRUE)
    \/ StartsWith(d, <<".">>) /\ d \notin allowed_hidden

(***************************************************************************)
(* File records.                                                           *)
(***************************************************************************)
\* os.path.splitext(filename)[1].lower()
file_extension(filename) ==
    LET dots == {i \in 1..Len(filename) : filename[i] = "."}
        last == CHOOSE i \in dots : \A j \in dots : j <= i
    IN  IF dots = {} \/ (\A j \in 1..(last - 1) : filename[j] = ".")
        THEN <<>>
        ELSE Lower(SubSeq(filename, last, Len(filename)))

type_map(ext) ==
    CASE ext = <<".","t","x","t">> -> <<"T","e","x","t">>
      [] ext \in { <<".","d","o","c">>, <<".","d","o","c","x">>, <<".","p","d","f">>, <<".","o","d","t">> } -> <<"D","o","c","u","m","e","n","t">>
      [] ext \in { <<".","x","l","s">>, <<".","x","l","s","x">>, <<".","c","s","v">> } -> <<"S","p","r","e","a","d","s","h","e","e","t">>
      [] ext \in { <<".","p","p","t">>, <<".","p","p","t","x">> } -> <<"P","r","e","s","e","n","t","a","t","i","o","n">>
      [] ext \in { <<".","j","p","g">>, <<".","j","p","e","g">>, <<".","p","n","g">>, <<".","g","i","f">>, <<".","b","m","p">>, <<".","s","v","g">> } -> <<"I","m","a","g","e">>
      [] ext \in { <<".","m","p","4">>, <<".","a","v","i">>, <<".","m","o","v">>, <<".","m","k","v">> } -> <<"V","i","d","e","o">>
      [] ext \in { <<".","m","p","3">>, <<".","w","a","v">>, <<".","f","l","a","c">>, <<".","m","4","a">> } -> <<"A","u","d","i","o">>
      [] ext \in { <<".","z","i","p">>, <<".","r","a","r">>, <<".","7","z">>, <<".","t","a","r">>, <<".","g","z">> } -> <<"A","r","c","h","i","v","e">>
      [] ext \in { <<".","p","y">>, <<".","j","s">>, <<".","j","a","v","a">>, <<".","c","p","p">>, <<".","c">>, <<".","h","t","m","l">>, <<".","c","s","s">>,
                   <<".","j","s","o","n">>, <<".","x","m","l">>, <<".","s","q","l">> } -> <<"C","o","d","e">>
      [] ext \in { <<".","e","x","e">>, <<".","a","p","p">>, <<".","d","m","g">> } -> <<"E","x","e","c","u","t","a","b","l","e">>
      [] OTHER -> <<"O","t","h","e","r">>

get_file_type(filename) == type_map(file_extension(filename))

\* the hashing cutoff and the embedding cutoff, in bytes
HashCutoff == 10485760

\* an embedding cutoff as high as the hashing cutoff
EmbeddingCutoffOfHash == HashCutoff

EmbeddingCutoff == 1048576

\* a hash function that answers although the file could not be read
calculate_file_hash_kept(file_path, opens) == "md5"

\* calculate_file_hash: the digest of the content, as a token; None when
\* open or read raised (opens is false), which the bare except swallows
calculate_file_hash(file_path, opens) == IF opens THEN "md5" ELSE "None"

\* the row built for a file (the columns the searches read, and the hash)
file_data(root_path, dirpath, filename, opens) ==
    LET file_path == Join(dirpath, filename)
        stat_info == StatInfo(file_path)
    IN  [file_path |-> file_path,
         file_name |-> filename,
         file_type |-> get_file_type(filename),
         file_size |-> stat_info.st_size,
         created_time |-> stat_info.st_ctime,
         modified_time |-> stat_info.st_mtime,
         accessed_time |-> stat_info.st_atime,
         parent_directory |-> dirpath,
         depth |-> Len(Parts(file_path)) - Len(Parts(root_path)),
         file_hash |-> IF stat_info.st_size < HashCutoff
                       THEN calculate_file_hash(file_path, opens) ELSE "None"]

(***************************************************************************)
(* State.                                                                  *)
(***************************************************************************)
VARIABLES
    fileState,      \* the file system: the state of each file of Volatile
    fsEpoch,        \* the number of changes made to the file system so far
    model,          \* self.model is set (the embedding capability is there)
    db,             \* the database as committed: what a new connection reads
    conn,           \* the database as the scan's connection sees it
    scan,           \* the activation of FileIndexer.index_directory
    started,        \* the number of scans started so far
    stats,          \* its stats dictionary
    workers,        \* the number of live threads that run a scan
    after_queue,    \* the callbacks handed to root.after, not yet run
    progress_var,   \* the text of the progress label
    messagebox,     \* the last dialog shown
    last,           \* what the last finished scan did, and the one before it
    results,        \* the last search of the caller and what it returned
    parsed,         \* what the query parser answers for each query of Queries
    call            \* a call of the parser or of the path filter, and its answer

vars == <<fileState, fsEpoch, model, db, conn, scan, started, stats, workers,
          after_queue, progress_var, messagebox, last, results, parsed, call>>

\* the queries that are searched for
Queries == { <<"T","X","T">>, <<"a","_","t","x","t">>, <<"a"," ","t","x","t">>, <<"r">>, <<"l","a","s","t"," ","2"," ","d","a","y","s">>,
             <<"s","m","a","l","l","e","r"," ","t","h","a","n"," ","2"," ","k","b">>, <<"p","y"," ","l","a","r","g","e","r"," ","t","h","a","n"," ","1"," ","m","b">>,
             <<"c","r","e","a","t","e","d"," ","i","n"," ","t","h","e"," ","l","a","s","t"," ","2"," ","d","a","y","s">>, <<"<"," ","5"," ","m","b">>,
             <<"m","o","d","i","f","i","e","d"," ","i","n"," ","t","h","e"," ","l","a","s","t"," ","2"," ","d","a","y","s">> }

\* What the parser makes of each query of Queries.  The answers depend on
\* the query alone; the state holds them, so that a search looks them up.
Parsed == [q \in Queries |->
              [time |-> parse_time(q), size |-> parse_size(q),
               metadata |-> metadata_clean(q), fuzzy |-> fuzzy_clean(q)]]

parse_time_constraint(query) == parsed[query].time

parse_size_constraint(query) == parsed[query].size

metadata_query_clean(query) == parsed[query].metadata

fuzzy_query_clean(query) == parsed[query].fuzzy

(***************************************************************************)
(* MetadataStore and EmbeddingIndex: the tables files and embeddings, and  *)
(* the counter of the AUTOINCREMENT key (sqlite_sequence).                 *)
(***************************************************************************)
EmptyDb == [files |-> {}, embeddings |-> {}, seq |-> 0]

\* a clear that deletes nothing
KeepTables(d) == d

\* DELETE FROM embeddings; DELETE FROM files (the key counter is kept)
ClearTables(d) == [d EXCEPT !.files = {}, !.embeddings = {}]

\* the rows that stay when a row with this file_path is written without the
\* UNIQUE constraint on file_path
KeptRowsNoUnique(rows, file_path) == rows

\* the rows that stay when a row with this file_path is written: REPLACE
\* deletes the row that holds the path.  The connection never sets PRAGMA
\* foreign_keys, so the deletion does not cascade to embeddings.
KeptRows(rows, file_path) == {f \in rows : f.file_path # file_path}

\* INSERT OR REPLACE INTO files: the new row takes the next key
InsertOrReplaceFile(d, row) ==
    [d EXCEPT !.files = KeptRows(d.files, row.file_path)
                          \cup {[id |-> d.seq + 1] @@ row},
              !.seq = d.seq + 1]

\* self.model.encode(text): the external embedding capability, a fixed
\* function from text to a vector
Encode(text) ==
    LET t == Lower(text)
    IN  <<1 + Count(t, <<"a">>), 1 + Count(t, <<"t">>), 1 + Count(t, <<"r">>)>>

\* generate_embedding: INSERT OR REPLACE INTO embeddings; when the model
\* raises (encodes is false) the except clause prints and nothing is stored
generate_embedding(d, file_id, row, encodes) ==
    LET search_text == row.file_name \o <<" ">> \o row.file_type \o <<" ">>
                       \o row.parent_directory
    IN  IF encodes
        THEN [d EXCEPT !.embeddings =
                 {e \in d.embeddings : e.file_id # file_id}
                 \cup {[file_id |-> file_id, embedding |-> Encode(search_text)]}]
        ELSE d

(***************************************************************************)
(* SearchEngine.                                                           *)
(***************************************************************************)
\* a sequence sorted by a strict order, the greatest first, equal elements
\* kept in their order (list.sort(reverse=True) is stable); gt[i][j] says
\* that s[i] is greater than s[j]
SortDesc(s, gt) ==
    LET n == Len(s)
        rank(i) == 1 + Cardinality({j \in 1..n : gt[j][i] \/ (~gt[i][j] /\ j < i)})
    IN  [p \in 1..n |-> s[CHOOSE i \in 1..n : rank(i) = p]]

\* the order of a sequence of rows by modified_time
LaterModified(s) ==
    [i \in 1..Len(s) |-> [j \in 1..Len(s) |-> s[i].modified_time > s[j].modified_time]]

\* the rows of a table scan: by key
TableScan(rows) ==
    LET n == Cardinality(rows)
        rank(r) == 1 + Cardinality({x \in rows : x.id < r.id})
    IN  [p \in 1..n |-> CHOOSE r \in rows : rank(r) = p]

\* s[:limit]
Truncate(s, limit) == SubSeq(s, 1, IF Len(s) < limit THEN Len(s) ELSE limit)

\* ORDER BY modified_time DESC LIMIT limit
OrderByModified(rows, limit) ==
    Truncate(SortDesc(TableScan(rows), LaterModified(TableScan(rows))), limit)

TimeOf(row, field) ==
    CASE field = "created_time" -> row.created_time
      [] field = "modified_time" -> row.modified_time
      [] field = "accessed_time" -> row.accessed_time

\* a WHERE clause that lets every row through
ConstraintsIgnored(row, time_constraint, size_constraint) == TRUE

\* the WHERE clauses of the time and size constraints
ConstraintsHold(row, time_constraint, size_constraint) ==
    /\ time_constraint.some => TimeOf(row, time_constraint.field) >= time_constraint.cutoff
    /\ size_constraint.some =>
          SizeHolds(row.file_size, size_constraint.operator, size_constraint.size_bytes)

\* a match on the name alone
NameLike(row, text) == LikeMatch(<<"%">> \o text \o <<"%">>, row.file_name)

\* file_name LIKE %text% OR file_path LIKE %text%
NameOrPathLike(row, text) ==
    LET search_pattern == <<"%">> \o text \o <<"%">>
    IN  LikeMatch(search_pattern, row.file_name) \/ LikeMatch(search_pattern, row.file_path)

\* a result row: the file row, and the score or similarity attached to it
Plain(row) == [file |-> row, extra |-> "none", value |-> <<>>]

Ids(found) == [k \in 1..Len(found) |-> found[k].file.id]

metadata_search(d, query, time_constraint, size_constraint, limit) ==
    LET query_clean == metadata_query_clean(query)
        hit == {f \in d.files :
                  /\ ConstraintsHold(f, time_constraint, size_constraint)
                  /\ query_clean # <<>> => NameOrPathLike(f, query_clean)}
        rows == OrderByModified(hit, limit)
    IN  [k \in 1..Len(rows) |-> Plain(rows[k])]

exact_search(d, query, limit) ==
    LET rows == OrderByModified({f \in d.files : NameOrPathLike(f, query)}, limit)
    IN  [k \in 1..Len(rows) |-> Plain(rows[k])]

RECURSIVE SumScores(_, _)
\* the sum over the terms of the occurrences of the term in searchable
SumScores(terms, searchable) ==
    IF terms = <<>> THEN 0
    ELSE (IF Contains(searchable, Head(terms)) THEN Count(searchable, Head(terms)) ELSE 0)
         + SumScores(Tail(terms), searchable)

\* a score that reads the file name alone
name_score(row, query_terms) == SumScores(query_terms, Lower(row.file_name))

fuzzy_score(row, query_terms) ==
    SumScores(query_terms, Lower(row.file_name \o <<" ">> \o row.parent_directory))

\* the order of a sequence of scored rows by score
HigherValue(s) ==
    [i \in 1..Len(s) |-> [j \in 1..Len(s) |-> s[i].value[1] > s[j].value[1]]]

fuzzy_search(d, query, limit) ==
    LET time_constraint == parse_time_constraint(query)
        size_constraint == parse_size_constraint(query)
        query_clean == fuzzy_query_clean(query)
        all_files == TableScan({f \in d.files :
                                  ConstraintsHold(f, time_constraint, size_constraint)})
        query_terms == Split(query_clean)
        scored == [k \in 1..Len(all_files) |->
                      [file |-> all_files[k], extra |-> "score",
                       value |-> <<fuzzy_score(all_files[k], query_terms)>>]]
        scored_files == SelectSeq(scored, LAMBDA r : r.value[1] > 0)
    IN  IF query_clean = <<>>
        THEN LET rows == Truncate(SortDesc(all_files, LaterModified(all_files)), limit)
             IN  [k \in 1..Len(rows) |-> Plain(rows[k])]
        ELSE Truncate(SortDesc(scored_files, HigherValue(scored_files)), limit)

Dot(u, v) == u[1] * v[1] + u[2] * v[2] + u[3] * v[3]

\* similarity a > similarity b, for similarities dot / (|q| |e|) given as
\* <<dot, |e|^2>> against the same query vector (no component is negative)
MoreSimilar(a, b) == a[1] * a[1] * b[2] > b[1] * b[1] * a[2]

\* the order of a sequence of similarities; each is the pair at sim[i]
BySimilarity(sim) ==
    [i \in 1..Len(sim) |-> [j \in 1..Len(sim) |-> MoreSimilar(sim[i], sim[j])]]

\* Without a model and without a constraint the source goes on to
\* self.model.encode; search_files never calls it without a model.
semantic_search(d, has_model, query, limit) ==
    LET time_constraint == parse_time_constraint(query)
        size_constraint == parse_size_constraint(query)
        pure == OrderByModified({g \in d.files :
                    ConstraintsHold(g, time_constraint, size_constraint)}, limit)
        filtered_ids == {f.id : f \in {g \in d.files :
                            ConstraintsHold(g, time_constraint, size_constraint)}}
        rows == IF time_constraint.some \/ size_constraint.some
                THEN {e \in d.embeddings : e.file_id \in filtered_ids}
                ELSE d.embeddings
        query_embedding == Encode(query)
        byId == LET n == Cardinality(rows)
                    rank(e) == 1 + Cardinality({x \in rows : x.file_id < e.file_id})
                IN  [p \in 1..n |-> CHOOSE e \in rows : rank(e) = p]
        unsorted == [k \in 1..Len(byId) |->
                        [file_id |-> byId[k].file_id,
                         similarity |-> <<Dot(query_embedding, byId[k].embedding),
                                          Dot(byId[k].embedding, byId[k].embedding)>>]]
        similarities == SortDesc(unsorted,
            BySimilarity([k \in 1..Len(unsorted) |-> unsorted[k].similarity]))
        top == Truncate(similarities, limit)
        top_ids == {top[k].file_id : k \in 1..Len(top)}
        IndexOf(id) == CHOOSE k \in 1..Len(top) : top[k].file_id = id
        fetched == TableScan({f \in d.files : f.id \in top_ids})
        found == [k \in 1..Len(fetched) |->
                       [file |-> fetched[k], extra |-> "similarity",
                        value |-> top[IndexOf(fetched[k].id)].similarity]]
    IN  IF (time_constraint.some \/ size_constraint.some) /\ ~has_model
        THEN [k \in 1..Len(pure) |-> Plain(pure[k])]
        ELSE SortDesc(found, BySimilarity([k \in 1..Len(found) |-> found[k].value]))

\* a last branch that matches the raw text instead
default_search_exact(d, query, limit) == exact_search(d, query, limit)

\* the last branch of search_files: "Default to fuzzy search"
default_search(d, query, limit) == fuzzy_search(d, query, limit)

\* a dispatch that knows the name metadata
search_files_metadata(d, has_model, query, search_type, limit) ==
    LET time_constraint == parse_time_constraint(query)
        size_constraint == parse_size_constraint(query)
    IN  IF search_type = "semantic" /\ has_model
        THEN semantic_search(d, has_model, query, limit)
        ELSE IF search_type = "fuzzy"
        THEN fuzzy_search(d, query, limit)
        ELSE IF search_type = "exact"
        THEN IF time_constraint.some \/ size_constraint.some
             THEN metadata_search(d, query, time_constraint, size_constraint, limit)
             ELSE exact_search(d, query, limit)
        ELSE IF search_type = "metadata"
        THEN metadata_search(d, query, time_constraint, size_constraint, limit)
        ELSE default_search(d, query, limit)

\* the strategy names search_files tells apart; any other name takes the
\* last branch
search_files(d, has_model, query, search_type, limit) ==
    LET time_constraint == parse_time_constraint(query)
        size_constraint == parse_size_constraint(query)
    IN  IF search_type = "semantic" /\ has_model
        THEN semantic_search(d, has_model, query, limit)
        ELSE IF search_type = "fuzzy"
        THEN fuzzy_search(d, query, limit)
        ELSE IF search_type = "exact"
        THEN IF time_constraint.some \/ size_constraint.some
             THEN metadata_search(d, query, time_constraint, size_constraint, limit)
             ELSE exact_search(d, query, limit)
        ELSE default_search(d, query, limit)

(***************************************************************************)
(* Bounds and initial state.                                               *)
(***************************************************************************)
\* the number of changes to the directory tree in a run
MaxFsChanges == 1

\* the number of scans started in a run
MaxScans == 2

\* the stats dictionary of a new scan
NewStats == [total |-> 0, indexed |-> 0, skipped |-> 0, errors |-> 0]

\* a scan that would go on from the counters of the scan before it
KeptStats(previous) == previous

\* stats = {...} at the start of index_directory: a new dictionary, whatever
\* the scan before counted
StartStats(previous) == NewStats

Idle == [pc |-> "idle", root_path |-> <<>>, clear_old |-> FALSE, callback |-> FALSE,
         threaded |-> FALSE, dirs |-> <<>>, dirpath |-> <<>>, filenames |-> <<>>,
         listed |-> {}, statFailed |-> {}, written |-> {}, trace |-> <<>>,
         notified |-> 0, hashFailed |-> {}, encodeFailed |-> {},
         epoch0 |-> 0,
         before |-> EmptyDb]

NoScan == [root_path |-> <<>>, clear_old |-> FALSE, outcome |-> "none",
           stats |-> NewStats, paths |-> {}, listed |-> {}, statFailed |-> {},
           written |-> {}, callback |-> FALSE, trace |-> <<>>, pathsBefore |-> {},
           hashFailed |-> {}, encodeFailed |-> {},
           storeUnchanged |-> TRUE,
           epoch0 |-> 0,
           repeat |-> FALSE,
           prevIndexed |-> 0, prevPaths |-> {}]

\* no call of the parser or the filter is under way
NoCall == [op |-> "none"]

NoResults == [query |-> <<>>, search_type |-> "", limit |-> 0, ids |-> <<>>]

\* The database file outlives the program.  The store an earlier run left:
\* empty, or the record of a file that has been deleted since.
OldRow == file_data(RootR, RootR, <<"o","l","d",".","t","x","t">>, TRUE)

EarlierRun(has_model) ==
    LET inserted == InsertOrReplaceFile(EmptyDb, OldRow)
    IN  IF has_model THEN generate_embedding(inserted, inserted.seq, OldRow, TRUE)
        ELSE inserted

Init ==
    /\ parsed = Parsed
    /\ fileState = [f \in Volatile |-> "ok"]
    /\ fsEpoch = 0
    /\ model \in BOOLEAN
    /\ db \in {EmptyDb, EarlierRun(model)}
    /\ conn = db
    /\ scan = Idle
    /\ started = 0
    /\ stats = NewStats
    /\ workers = 0
    /\ after_queue = <<>>
    /\ progress_var = [text |-> "Ready", stats |-> NewStats]
    /\ messagebox = "none"
    /\ last = NoScan
    /\ results = NoResults
    /\ call = NoCall

StateOf(file_path) == IF file_path \in Volatile THEN fileState[file_path] ELSE "ok"

\* the paths of the rows of a table
PathsOf(rows) == {f.file_path : f \in rows}

(***************************************************************************)
(* The environment: a file of the tree vanishes, comes back or breaks.     *)
(***************************************************************************)
FsChange(file_path, state) ==
    /\ fsEpoch < MaxFsChanges
    /\ state # fileState[file_path]
    /\ fileState' = [fileState EXCEPT ![file_path] = state]
    /\ fsEpoch' = fsEpoch + 1
    /\ UNCHANGED <<model, db, conn, scan, started, stats, workers, after_queue, progress_var,
                   messagebox, last, results, parsed, call>>

(***************************************************************************)
(* Scanner: FileIndexer.index_directory, one step per directory visited    *)
(* and per file.                                                           *)
(***************************************************************************)
\* progress_callback(message) of FileIndexApp.index_directory: root.after(0, ...)
\* queues the update of the label.  A counters message holds the stats
\* dictionary itself, which the label reads when the callback runs.  The
\* callback of a caller of the library queues nothing.
Notify(queue, callback, message) == IF callback THEN Append(queue, message) ELSE queue

\* The events of a scan in the order they happen, each kind once: the status
\* texts its progress_callback was called with, "deleted" when the tables
\* were emptied, "visit" and "write" for the first directory and record.
Traced(trace, happens, event) ==
    IF happens /\ \A k \in 1..Len(trace) : trace[k] # event
    THEN Append(trace, event) ELSE trace

Status(text) == [kind |-> "status", text |-> text]

\* a counters message: the closure holds the stats dictionary of the scan,
\* not a copy; live says the scan that owns the dictionary still runs, and
\* emitted keeps the counts the dictionary held when the message was sent
Counters == [kind |-> "counters", live |-> TRUE, stats |-> NewStats,
             emitted |-> NewStats]

\* the queue when the scan returns: its dictionary changes no more
Settled(queue, final) ==
    [k \in 1..Len(queue) |->
        IF queue[k].kind = "counters" /\ queue[k].live
        THEN [queue[k] EXCEPT !.live = FALSE, !.stats = final]
        ELSE queue[k]]

\* the fresh stats dictionary, the connection, and os.walk(root_path) not
\* yet started; os.walk of a path that is no directory yields nothing
BeginScan(root_path, clear_old, callback, threaded) ==
    /\ started < MaxScans
    /\ started' = started + 1
    /\ stats' = StartStats(stats)
    /\ conn' = db
    /\ scan' = [pc |-> IF clear_old THEN "clear" ELSE "walk",
                root_path |-> root_path, clear_old |-> clear_old,
                callback |-> callback, threaded |-> threaded,
                dirs |-> IF IsDir(root_path) THEN <<root_path>> ELSE <<>>,
                dirpath |-> <<>>, filenames |-> <<>>,
                listed |-> {}, statFailed |-> {}, written |-> {}, trace |-> <<>>,
         notified |-> 0, hashFailed |-> {}, encodeFailed |-> {},
                epoch0 |-> fsEpoch, before |-> db]
    /\ results' = NoResults

\* a caller of the library calls index_directory, and waits for it
CallIndexDirectory(root_path, clear_old, progress_callback) ==
    /\ scan.pc = "idle"
    /\ workers = 0
    /\ BeginScan(root_path, clear_old, progress_callback, FALSE)
    /\ UNCHANGED <<fileState, fsEpoch, model, db, workers, after_queue, progress_var,
                   messagebox, last, parsed, call>>

\* if clear_old: both tables are emptied and the deletion is committed,
\* with a status message before and after
ClearOld ==
    /\ scan.pc = "clear"
    /\ conn' = ClearTables(conn)
    /\ db' = ClearTables(conn)
    /\ after_queue' = Notify(Notify(after_queue, scan.callback /\ scan.threaded,
                                    Status("Clearing old index...")),
                             scan.callback /\ scan.threaded,
                             Status("Starting indexing..."))
    /\ scan' = [scan EXCEPT
          !.pc = "walk",
          !.trace = Traced(Traced(Traced(@, scan.callback, "Clearing old index..."),
                                  TRUE, "deleted"),
                           scan.callback, "Starting indexing...")]
    /\ UNCHANGED <<fileState, fsEpoch, model, started, stats, workers, progress_var,
                   messagebox, last, results, parsed, call>>

\* What the filter and the row builder make of the entries of the tree,
\* computed once.
Range(s) == {s[k] : k \in 1..Len(s)}

DirPrunedAt == [d \in Directories |->
                  [n \in Range(Tree(d).dirnames) |-> DirPruned(d, n)]]

FileIgnoredAt == [d \in Directories |->
                    [n \in Range(Tree(d).filenames) |->
                        should_ignore_path(Join(d, n), FALSE)]]

RowAt == [r \in Directories |-> [d \in Directories |->
             [n \in Range(Tree(d).filenames) |->
                 [opens \in BOOLEAN |-> file_data(r, d, n, opens)]]]]

\* os.walk yields the next directory: its entries are read, the ignored
\* child directories are counted and removed, the others are visited next
WalkDir ==
    /\ scan.pc = "walk"
    /\ scan.filenames = <<>>
    /\ scan.dirs # <<>>
    /\ LET dirpath == Head(scan.dirs)
           entries == Tree(dirpath)
           filtered_dirs == SelectSeq(entries.dirnames, LAMBDA d : ~DirPrunedAt[dirpath][d])
           filenames == SelectSeq(entries.filenames,
                                  LAMBDA n : StateOf(Join(dirpath, n)) # "absent")
       IN  /\ stats' = [stats EXCEPT !.skipped =
                           @ + Len(entries.dirnames) - Len(filtered_dirs)]
           /\ scan' = [scan EXCEPT
                 !.dirpath = dirpath,
                 !.trace = Traced(@, TRUE, "visit"),
                 !.dirs = [k \in 1..Len(filtered_dirs) |-> Join(dirpath, filtered_dirs[k])]
                          \o Tail(scan.dirs),
                 !.filenames = filenames,
                 !.listed = @ \cup {Join(dirpath, filenames[k]) : k \in 1..Len(filenames)}]
    /\ UNCHANGED <<fileState, fsEpoch, model, db, conn, started, workers, after_queue,
                   progress_var, messagebox, last, results, parsed, call>>

\* a loop body that counts a file the filter rejects as a failure
OnIgnoredAsError(st) == [st EXCEPT !.errors = @ + 1]

\* the file is rejected by the filter: stats['skipped'] += 1; continue
OnIgnored(st) == [st EXCEPT !.skipped = @ + 1]

\* the except clause of the loop body
OnErrorLost(st) == st

OnError(st) == [st EXCEPT !.errors = @ + 1]

\* the loop body for the next file of the directory; opens and encodes say
\* whether reading the file for its hash and the call of the embedding model
\* succeed, should the loop body come to them
IndexFile(opens, encodes) ==
    /\ scan.pc = "walk"
    /\ scan.filenames # <<>>
    /\ LET filename == Head(scan.filenames)
           file_path == Join(scan.dirpath, filename)
           counted == [stats EXCEPT !.total = @ + 1]
           row == RowAt[scan.root_path][scan.dirpath][filename][opens]
           hashed == row.file_size < HashCutoff
           embedded == model /\ row.file_size < EmbeddingCutoff
           inserted == InsertOrReplaceFile(conn, row)
           file_id == inserted.seq
           stored == IF embedded
                     THEN generate_embedding(inserted, file_id, row, encodes)
                     ELSE inserted
           done == [counted EXCEPT !.indexed = @ + 1]
       IN  IF FileIgnoredAt[scan.dirpath][filename]
           THEN /\ stats' = OnIgnored(counted)
                /\ scan' = [scan EXCEPT !.filenames = Tail(@)]
                /\ UNCHANGED <<conn, after_queue>>
           ELSE IF StateOf(file_path) # "ok"
           THEN \* os.stat raises
                /\ stats' = OnError(counted)
                /\ scan' = [scan EXCEPT !.filenames = Tail(@),
                                        !.statFailed = @ \cup {file_path}]
                /\ UNCHANGED <<conn, after_queue>>
           ELSE /\ conn' = stored
                /\ stats' = done
                /\ scan' = [scan EXCEPT !.filenames = Tail(@),
                                        !.written = @ \cup {file_path},
                                        !.hashFailed =
                                            IF hashed /\ ~opens
                                            THEN @ \cup {file_path} ELSE @,
                                        !.encodeFailed =
                                            IF embedded /\ ~encodes
                                            THEN @ \cup {file_path} ELSE @,
                                        !.trace = Traced(@, TRUE, "write"),
                                        \* progress_callback(stats) was called
                                        !.notified =
                                            IF scan.callback /\ done.total % 10 = 0
                                            THEN @ + 1 ELSE @]
                /\ after_queue' = IF done.total % 10 = 0
                                  THEN Notify(after_queue,
                                              scan.callback /\ scan.threaded,
                                              [Counters EXCEPT !.emitted = done])
                                  ELSE after_queue
    /\ UNCHANGED <<fileState, fsEpoch, model, db, started, workers, progress_var,
                   messagebox, last, results, parsed, call>>

\* the walk is over: commit, close, return stats.  In the application the
\* thread then queues on_indexing_complete and ends.
ReturnStats ==
    /\ scan.pc = "walk"
    /\ scan.filenames = <<>>
    /\ scan.dirs = <<>>
    /\ db' = conn
    /\ last' = [root_path |-> scan.root_path, clear_old |-> scan.clear_old,
                outcome |-> "returned", stats |-> stats,
                paths |-> PathsOf(conn.files), listed |-> scan.listed,
                statFailed |-> scan.statFailed, written |-> scan.written,
                callback |-> scan.callback, trace |-> scan.trace,
                hashFailed |-> scan.hashFailed, encodeFailed |-> scan.encodeFailed,
                pathsBefore |-> PathsOf(scan.before.files),
                storeUnchanged |-> /\ conn.files = scan.before.files
                                   /\ conn.embeddings = scan.before.embeddings,
                epoch0 |-> scan.epoch0,
                repeat |-> /\ last.outcome = "returned"
                           /\ last.clear_old /\ scan.clear_old
                           /\ last.root_path = scan.root_path
                           /\ last.epoch0 = fsEpoch,
                prevIndexed |-> last.stats.indexed, prevPaths |-> last.paths]
    /\ scan' = Idle
    /\ after_queue' = IF scan.threaded
                      THEN Append(Settled(after_queue, stats),
                                  [kind |-> "complete", stats |-> stats])
                      ELSE after_queue
    /\ workers' = IF scan.threaded THEN workers - 1 ELSE workers
    /\ UNCHANGED <<fileState, fsEpoch, model, conn, started, stats, progress_var,
                   messagebox, results, parsed, call>>

(***************************************************************************)
(* Callers.                                                                *)
(***************************************************************************)
SearchTypes == {"exact", "fuzzy", "metadata", "semantic", "regex"}

Limits == {1, 50}

\* a caller of the library calls search_files while no scan of its own runs
\* and it holds no list from the call before
CallSearchFiles(query, search_type, limit) ==
    /\ scan.pc = "idle"
    /\ workers = 0
    /\ results = NoResults
    /\ results' = [query |-> query, search_type |-> search_type, limit |-> limit,
                   ids |-> Ids(search_files(db, model, query, search_type, limit))]
    /\ UNCHANGED <<fileState, fsEpoch, model, db, conn, scan, started, stats, workers,
                   after_queue, progress_var, messagebox, last, parsed, call>>

\* the caller is done with the list search_files returned
DropResults ==
    /\ results # NoResults
    /\ results' = NoResults
    /\ UNCHANGED <<fileState, fsEpoch, model, db, conn, scan, started, stats, workers,
                   after_queue, progress_var, messagebox, last, parsed, call>>

\* a start request that goes on although a thread is alive
NeverInProgress == FALSE

\* self.indexing_thread and self.indexing_thread.is_alive()
IndexingInProgress == workers > 0

\* FileIndexApp.start_indexing, on the control thread.  A dialog is modal: no
\* button is pressed while one is shown.
StartIndexing(directory) ==
    /\ messagebox = "none"
    /\ IF directory = <<>> \/ ~IsDir(directory)
       THEN /\ messagebox' = "showerror"
            /\ UNCHANGED <<conn, scan, started, stats, workers, progress_var, results>>
       ELSE IF IndexingInProgress
       THEN /\ messagebox' = "showwarning"
            /\ UNCHANGED <<conn, scan, started, stats, workers, progress_var, results>>
       ELSE /\ progress_var' = [text |-> "Indexing...", stats |-> NewStats]
            /\ workers' = workers + 1
            /\ BeginScan(directory, TRUE, TRUE, TRUE)
            /\ UNCHANGED messagebox
    /\ UNCHANGED <<fileState, fsEpoch, model, db, after_queue, last, parsed, call>>

\* the user closes the dialog
Dismiss ==
    /\ messagebox # "none"
    /\ messagebox' = "none"
    /\ UNCHANGED <<fileState, fsEpoch, model, db, conn, scan, started, stats, workers,
                   after_queue, progress_var, last, results, parsed, call>>

\* the event loop runs the oldest callback handed to root.after
RunAfter ==
    /\ after_queue # <<>>
    /\ LET message == Head(after_queue)
       IN  CASE message.kind = "status" ->
                   /\ progress_var' = [text |-> message.text, stats |-> NewStats]
                   /\ UNCHANGED messagebox
             [] message.kind = "counters" ->
                   /\ progress_var' = [text |-> "Indexing... counts",
                                       stats |-> IF message.live THEN stats
                                                 ELSE message.stats,
                                       emitted |-> message.emitted]
                   /\ UNCHANGED messagebox
             [] message.kind = "complete" ->
                   /\ progress_var' = [text |-> "Indexed", stats |-> message.stats]
                   /\ messagebox' = "showinfo"
    /\ after_queue' = Tail(after_queue)
    /\ UNCHANGED <<fileState, fsEpoch, model, db, conn, scan, started, stats, workers, last,
                   results, parsed, call>>

\* a step of a scan in which hashing and embedding work
ScanStep == ClearOld \/ WalkDir \/ IndexFile(TRUE, TRUE) \/ ReturnStats

Environment == \E f \in Volatile, s \in FileStates : FsChange(f, s)

Roots == {RootR, RootSub, NoDir}

Next ==
    \* a caller that clears the store passes a progress_callback
    \/ \E r \in Roots, c \in BOOLEAN : CallIndexDirectory(r, c, c)
    \/ ScanStep
    \/ Environment

\* a program that uses FileIndexer as a library, one call at a time, while
\* the tree changes under it
Spec == Init /\ [][Next]_vars

NextSearch ==
    \/ \E r \in {RootR, RootSub}, c \in BOOLEAN : CallIndexDirectory(r, c, FALSE)
    \/ ScanStep
    \/ \E q \in Queries, t \in SearchTypes, n \in Limits : CallSearchFiles(q, t, n)
    \/ DropResults

\* a program that indexes and searches, over a tree that stays as it is
SpecSearch == Init /\ [][NextSearch]_vars

NextApp ==
    \/ \E d \in Roots \cup {RootBig} : StartIndexing(d)
    \/ Dismiss
    \/ RunAfter
    \/ ScanStep

\* the application: the control thread and the worker thread
SpecApp == Init /\ [][NextApp]_vars

\* a store in which the writes of the scan show before it commits
ReadUncommitted(committed, working) == working

\* The store a connection other than the scan's reads: what was committed.
\* The scan commits after the clear and when the walk is over, nowhere else.
ReadCommitted(committed, working) == committed

\* FileIndexApp.search_files, on the control thread, whether or not the
\* worker thread runs.  observed tells what the scan had done by then: the
\* store before it and the store as the scan sees it.
AppSearchFiles(query, search_type) ==
    /\ messagebox = "none"
    /\ IF Strip(query) = <<>>
       THEN /\ messagebox' = "showwarning"
            /\ UNCHANGED results
       ELSE /\ results' =
                 [query |-> Strip(query), search_type |-> search_type, limit |-> 50,
                  ids |-> Ids(search_files(ReadCommitted(db, conn), model, Strip(query),
                                           search_type, 50)),
                  observed |->
                     [pc |-> scan.pc, written |-> scan.written,
                      before |-> scan.before, working |-> conn]]
            /\ UNCHANGED messagebox
    /\ UNCHANGED <<fileState, fsEpoch, model, db, conn, scan, started, stats, workers,
                   after_queue, progress_var, last, parsed, call>>

NextAppSearch ==
    \/ StartIndexing(RootR)
    \/ Dismiss
    \/ RunAfter
    \/ ScanStep
    \* the query field, empty or not, and the three radio buttons
    \/ \E q \in { <<>>, <<"r">> }, t \in {"fuzzy", "exact", "semantic"} :
          AppSearchFiles(q, t)

\* the application with a user who also searches while a scan runs
SpecAppSearch == Init /\ [][NextAppSearch]_vars

NextFaults ==
    \/ \E c \in BOOLEAN : CallIndexDirectory(RootR, c, FALSE)
    \/ ClearOld
    \/ WalkDir
    \/ \E opens, encodes \in BOOLEAN : IndexFile(opens, encodes)
    \/ ReturnStats

\* scans in which, file by file, reading the file for its hash or the call
\* of the embedding model may fail
SpecFaults == Init /\ [][NextFaults]_vars


(***************************************************************************)
(* Calls of the query parser and of the path filter, one at a time.  Each  *)
(* input is a text and what it was put together from.                      *)
(***************************************************************************)
\* Queries for parse_time_constraint: words before, the duration phrase
\* (a number and a unit, with the seconds the unit stands for), words after;
\* mention is the field the words before and after speak of.  And queries
\* without the phrase.
TimeQueries ==
    LET leads == { [text |-> <<>>, mention |-> {}],
                   [text |-> <<"c","r","e","a","t","e","d"," ">>, mention |-> {"created"}],
                   [text |-> <<"t","h","e"," ","c","r","e","a","t","i","o","n"," ">>, mention |-> {"created"}],
                   [text |-> <<"m","o","d","i","f","i","e","d"," ">>, mention |-> {"modified"}],
                   [text |-> <<"m","o","d","i","f","i","c","a","t","i","o","n"," ">>, mention |-> {"modified"}],
                   [text |-> <<"c","h","a","n","g","e","d"," ">>, mention |-> {"modified"}],
                   [text |-> <<"a","c","c","e","s","s","e","d"," ">>, mention |-> {"accessed"}],
                   [text |-> <<"a","c","c","e","s","s"," ">>, mention |-> {"accessed"}] }
        in_the == { <<>>, <<"i","n"," ","t","h","e"," ">> }
        numbers == { [text |-> <<"1">>, value |-> 1], [text |-> <<"2">>, value |-> 2],
                     [text |-> <<"1","0">>, value |-> 10] }
        units == { [text |-> <<"h","o","u","r">>, seconds |-> 3600],
                   [text |-> <<"h","o","u","r","s">>, seconds |-> 3600],
                   [text |-> <<"d","a","y">>, seconds |-> 86400],
                   [text |-> <<"d","a","y","s">>, seconds |-> 86400],
                   [text |-> <<"w","e","e","k">>, seconds |-> 604800],
                   [text |-> <<"w","e","e","k","s">>, seconds |-> 604800],
                   [text |-> <<"m","o","n","t","h">>, seconds |-> 2592000],
                   [text |-> <<"m","o","n","t","h","s">>, seconds |-> 2592000] }
        trails == { [text |-> <<>>, mention |-> {}],
                    [text |-> <<" ","o","r"," ","l","a","s","t"," ","3"," ","w","e","e","k","s">>, mention |-> {}],
                    [text |-> <<" ","a","n","d"," ","c","h","a","n","g","e","d">>, mention |-> {"modified"}],
                    [text |-> <<" ","t","h","e","n"," ","c","r","e","a","t","e","d">>, mention |-> {"created"}] }
        plain == { <<>>, <<"c","r","e","a","t","e","d"," ","r","e","p","o","r","t">>, <<"l","a","s","t"," ","d","a","y","s">>, <<"l","a","s","t"," ","2"," ","y","e","a","r","s">>,
                   <<"l","a","s","t"," ","t","w","o"," ","d","a","y","s">>, <<"i","n"," ","t","h","e"," ","l","a","s","t"," ","w","e","e","k">>, <<"m","o","d","i","f","i","e","d"," ","l","a","s","t","3","d","a","y","s">> }
    IN  { [text |-> a.text \o i \o <<"l","a","s","t"," ">> \o n.text \o <<" ">> \o u.text \o z.text,
           phrase |-> TRUE, mention |-> a.mention \cup z.mention,
           value |-> n.value, seconds |-> u.seconds] :
             a \in leads, i \in in_the, n \in numbers, u \in units, z \in trails }
        \cup { [text |-> q, phrase |-> FALSE, mention |-> {}, value |-> 0,
                seconds |-> 0] : q \in plain }

\* a caller calls parse_time_constraint(query)
CallParseTimeConstraint ==
    /\ call = NoCall
    /\ \E query \in TimeQueries :
          call' = [op |-> "parse_time_constraint", input |-> query,
                   returned |-> parse_time(query.text)]
    /\ UNCHANGED <<fileState, fsEpoch, model, db, conn, scan, started, stats, workers,
                   after_queue, progress_var, messagebox, last, results, parsed>>

\* The phrasings of a size constraint in the order of their description,
\* each with its operator and its place in the list parse_size_constraint
\* tries (tried).
SizeForms == <<
    [kind |-> "than", word |-> <<"s","m","a","l","l","e","r">>, operator |-> "<", tried |-> 1],
    [kind |-> "than", word |-> <<"l","e","s","s">>, operator |-> "<", tried |-> 2],
    [kind |-> "than", word |-> <<"l","a","r","g","e","r">>, operator |-> ">", tried |-> 3],
    [kind |-> "than", word |-> <<"g","r","e","a","t","e","r">>, operator |-> ">", tried |-> 4],
    [kind |-> "than", word |-> <<"b","i","g","g","e","r">>, operator |-> ">", tried |-> 5],
    [kind |-> "equal", word |-> <<"e","q","u","a","l">>, operator |-> "=", tried |-> 6],
    [kind |-> "or", word |-> <<"l","e","s","s">>, operator |-> "<=", tried |-> 7],
    [kind |-> "or", word |-> <<"s","m","a","l","l","e","r">>, operator |-> "<=", tried |-> 9],
    [kind |-> "or", word |-> <<"m","o","r","e">>, operator |-> ">=", tried |-> 8],
    [kind |-> "or", word |-> <<"l","a","r","g","e","r">>, operator |-> ">=", tried |-> 10],
    [kind |-> "or", word |-> <<"b","i","g","g","e","r">>, operator |-> ">=", tried |-> 11],
    [kind |-> "bare", word |-> <<"<">>, operator |-> "<", tried |-> 12],
    [kind |-> "bare", word |-> <<">">>, operator |-> ">", tried |-> 13],
    [kind |-> "bare", word |-> <<"<","=">>, operator |-> "<=", tried |-> 14],
    [kind |-> "bare", word |-> <<">","=">>, operator |-> ">=", tried |-> 15],
    [kind |-> "bare", word |-> <<"=">>, operator |-> "=", tried |-> 16] >>

\* Queries for parse_size_constraint: one phrasing or two, each with the
\* place of its form in SizeForms and the bytes its number and unit stand
\* for; and queries without a phrasing.
SizeQueries ==
    LET numbers == { [text |-> <<"5">>, unit |-> <<"m","b">>, bytes |-> 5242880],
                     [text |-> <<"2">>, unit |-> <<"k","b">>, bytes |-> 2048],
                     [text |-> <<"1",".","5">>, unit |-> <<"k","b">>, bytes |-> 1536],
                     [text |-> <<"0",".","1">>, unit |-> <<"k","b">>, bytes |-> 102],
                     [text |-> <<"1">>, unit |-> <<"g","b">>, bytes |-> 1073741824],
                     [text |-> <<"0",".","0","0","1">>, unit |-> <<"t","b">>, bytes |-> 1099511627] }
        five_mb == [text |-> <<"5">>, unit |-> <<"m","b">>, bytes |-> 5242880]
        two_kb == [text |-> <<"2">>, unit |-> <<"k","b">>, bytes |-> 2048]
        Text(k, n, space) ==
            LET form == SizeForms[k]
                amount == n.text \o space \o n.unit
            IN  CASE form.kind = "than" -> form.word \o <<" ","t","h","a","n"," ">> \o amount
                  [] form.kind = "equal" -> <<"e","q","u","a","l"," ","t","o"," ">> \o amount
                  [] form.kind = "or" -> amount \o <<" ","o","r"," ">> \o form.word
                  [] form.kind = "bare" -> form.word \o space \o amount
        forms == 1..Len(SizeForms)
        plain == { <<>>, <<"r","e","p","o","r","t">>, <<"5"," ","m","b">>, <<"s","m","a","l","l","e","r"," ","t","h","a","n"," ","5">>, <<"l","e","s","s"," ","t","h","a","n"," ","f","i","v","e"," ","m","b">>,
                   <<"2"," ","k","b"," ","o","r"," ","s","o">>, <<"<"," ","5"," ","b","y","t","e","s">> }
    IN  { [text |-> lead \o Text(k, n, space),
           phrases |-> {[form |-> k, bytes |-> n.bytes]}] :
             lead \in { <<>>, <<"f","i","l","e","s"," ">>, <<"r","e","p","o","r","t"," ">> }, k \in forms, n \in numbers,
             space \in { <<>>, <<" ">> } }
        \cup { [text |-> Text(p[1], five_mb, <<" ">>) \o <<" ","a","n","d"," ">>
                          \o Text(p[2], two_kb, <<" ">>),
                phrases |-> {[form |-> p[1], bytes |-> five_mb.bytes],
                             [form |-> p[2], bytes |-> two_kb.bytes]}] :
                  p \in {q \in forms \X forms : q[1] # q[2]} }
        \cup { [text |-> <<"F","i","l","e","s"," ","S","M","A","L","L","E","R"," ","T","h","a","n"," ","5"," ","M","B">>,
                phrases |-> {[form |-> 1, bytes |-> 5242880]}] }
        \cup { [text |-> q, phrases |-> {}] : q \in plain }

\* a caller calls parse_size_constraint(query)
CallParseSizeConstraint ==
    /\ call = NoCall
    /\ \E query \in SizeQueries :
          call' = [op |-> "parse_size_constraint", input |-> query,
                   returned |-> parse_size(query.text)]
    /\ UNCHANGED <<fileState, fsEpoch, model, db, conn, scan, started, stats, workers,
                   after_queue, progress_var, messagebox, last, results, parsed>>

\* the caller is done with the answer
ReturnCall ==
    /\ call # NoCall
    /\ call' = NoCall
    /\ UNCHANGED <<fileState, fsEpoch, model, db, conn, scan, started, stats, workers,
                   after_queue, progress_var, messagebox, last, results, parsed>>

\* Paths for should_ignore_path: absolute paths of up to MaxDepth segments,
\* as the path of a file and as the path of a directory.
MaxDepth == 3

SegmentNames == { <<"s","r","c">>, <<"N","o","d","e","_","M","o","d","u","l","e","s">>, <<".","h","i","d","d","e","n">>, <<".","g","i","t","i","g","n","o","r","e">>,
                  <<".","G","i","t","I","g","n","o","r","e">>, <<".",".">>, <<"a",".","t","x","t">> }

RECURSIVE JoinAll(_)
\* the absolute path of the segments
JoinAll(segments) ==
    IF segments = <<>> THEN <<>>
    ELSE <<"/">> \o Head(segments) \o JoinAll(Tail(segments))

FilterPaths ==
    { [text |-> JoinAll(segments), segments |-> segments, is_directory |-> d] :
         segments \in UNION { [1..n -> SegmentNames] : n \in 1..MaxDepth },
         d \in BOOLEAN }

\* a caller calls should_ignore_path(path, is_directory)
CallShouldIgnorePath ==
    /\ call = NoCall
    /\ \E path \in FilterPaths :
          call' = [op |-> "should_ignore_path", input |-> path,
                   returned |-> should_ignore_path(path.text, path.is_directory)]
    /\ UNCHANGED <<fileState, fsEpoch, model, db, conn, scan, started, stats, workers,
                   after_queue, progress_var, messagebox, last, results, parsed>>

NextCalls ==
    \/ CallParseTimeConstraint
    \/ CallParseSizeConstraint
    \/ CallShouldIgnorePath
    \/ ReturnCall

\* The parser and the filter read neither the store nor the embedding model:
\* the calls are made on a new, empty store.
InitCalls == Init /\ ~model /\ db = EmptyDb

\* a program that calls the parser and the filter
SpecCalls == InitCalls /\ [][NextCalls]_vars
(***************************************************************************)
(* Properties.                                                             *)
(***************************************************************************)
PathUnique(rows) == \A f, g \in rows : f.file_path = g.file_path => f = g

\* C1: in every state of the store, committed or as the scan sees it, no two
\* file records have the same path, and every path a finished scan wrote has
\* its record: writing a path that has a record replaces the record.
C1_PathUnique ==
    /\ PathUnique(db.files)
    /\ PathUnique(conn.files)
    /\ last.outcome = "returned" => last.written \subseteq last.paths

\* a scan without clearing has written a path that had a record
C1_PathRewritten ==
    /\ last.outcome = "returned"
    /\ ~last.clear_old
    /\ last.written \cap last.pathsBefore # {}

\* C2: every stored embedding vector is keyed by the id of a file record of
\* the store, also after a scan without clearing has replaced records.
C2_NoOrphanVectors ==
    \A e \in db.embeddings : \E f \in db.files : f.id = e.file_id

\* C3: index_directory called with clear_old and a root that is no directory
\* fails with an error and leaves the two tables as they were.
C3_InvalidRootFailsFast ==
    (last.outcome # "none" /\ last.clear_old /\ ~IsDir(last.root_path))
        => (last.outcome = "failed" /\ last.storeUnchanged)

\* C4: at most one scan runs; while a scan runs no step starts another scan
\* or another worker, and a start request made then (answered by the
\* warning) leaves the scan, its counters, the store and the queue alone.
C4_ScanExclusivity ==
    [][/\ workers' <= 1
       /\ scan.pc # "idle" => (workers' <= workers /\ started' = started)
       /\ (scan.pc # "idle" /\ messagebox = "none" /\ messagebox' = "showwarning")
             => UNCHANGED <<scan, stats, db, conn, workers, started, after_queue>>
      ]_vars

\* a start request was turned down while the scan runs
C4_RejectedWhileScanning == messagebox = "showwarning" /\ scan.pc \in {"clear", "walk"}

\* the files of a listing that the filter lets through; what the filter says
\* of a file of the tree is read from the table computed once
NonIgnored(paths) ==
    {p \in paths :
        IF \E d \in Directories : \E n \in DOMAIN FileIgnoredAt[d] : p = Join(d, n)
        THEN \A d \in Directories : \A n \in DOMAIN FileIgnoredAt[d] :
                 p = Join(d, n) => ~FileIgnoredAt[d][n]
        ELSE ~should_ignore_path(p, FALSE)}

\* C5: a scan in which os.stat fails for exactly one of the N files that are
\* not ignored returns with errors = 1 and indexed = N - 1: it wrote each
\* of the other files, and no record for the one that failed.
C5_ScanResilience ==
    (last.outcome = "returned" /\ Cardinality(last.statFailed) = 1) =>
        LET N == Cardinality(NonIgnored(last.listed))
        IN  /\ last.stats.errors = 1
            /\ last.stats.indexed = N - 1
            /\ last.written = NonIgnored(last.listed) \ last.statFailed
            /\ last.written \subseteq last.paths
            /\ last.clear_old => last.statFailed \cap last.paths = {}

\* one file of several failed
C5_OneFailureAmongSeveral ==
    /\ last.outcome = "returned"
    /\ Cardinality(last.statFailed) = 1
    /\ last.stats.indexed >= 1

\* C6: the second of two scans in a row of the same root with clear_old,
\* the tree unchanged from the start of the first to the end of the second,
\* returns the indexed count of the first and leaves the paths the first left.
C6_ReindexIdempotent ==
    last.repeat => (last.stats.indexed = last.prevIndexed /\ last.paths = last.prevPaths)

\* the same tree was indexed twice, and files were indexed
C6_IndexedTwice == last.repeat /\ last.stats.indexed > 0

\* what _metadata_search returns for the search held in results
MetadataIds ==
    Ids(metadata_search(db, results.query, parse_time_constraint(results.query),
                        parse_size_constraint(results.query), results.limit))

\* what _fuzzy_search returns for the search held in results
FuzzyIds == Ids(fuzzy_search(db, results.query, results.limit))

\* C7: without the embedding model, a search with strategy semantic returns
\* the records of the Metadata strategy, in its order.
C7_SemanticWithoutModelIsMetadata ==
    (results.search_type = "semantic" /\ ~model) => results.ids = MetadataIds

\* C8 as stated: a search with strategy name metadata returns the records of
\* the Metadata strategy, in its order.
C8_MetadataNameRunsMetadata ==
    results.search_type = "metadata" => results.ids = MetadataIds

\* C8 as amended: search_files does not know the name metadata; a search
\* with that name returns the records of the Fuzzy strategy, in its order.
C8_MetadataNameRunsFuzzy ==
    results.search_type = "metadata" => results.ids = FuzzyIds

\* a search by the name metadata whose result is not the Metadata result
C8_MetadataNameDiffers ==
    /\ results.search_type = "metadata"
    /\ results.ids # <<>>
    /\ results.ids # MetadataIds

\* C9: a search with a strategy name that is none of exact, fuzzy, metadata,
\* semantic returns the records of the Fuzzy strategy, in its order.
C9_UnknownNameRunsFuzzy ==
    (results.search_type \in SearchTypes \ {"exact", "fuzzy", "metadata", "semantic"})
        => results.ids = FuzzyIds

\* a search by an unknown name that found records
C9_UnknownNameFound == results.search_type = "regex" /\ Len(results.ids) > 1

\* a constraint is recognized in the query of the search held in results
ConstraintRecognized ==
    \/ parse_time_constraint(results.query).some
    \/ parse_size_constraint(results.query).some

\* the ids of the records whose name or path has the text in it (with the
\* letters folded to lower case or not), the last modified first, at most
\* limit of them
SubstringIds(fold) ==
    LET Has(s, w) == IF fold THEN Contains(Lower(s), Lower(w)) ELSE Contains(s, w)
        rows == OrderByModified({f \in db.files : \/ Has(f.file_name, results.query)
                                                  \/ Has(f.file_path, results.query)},
                                results.limit)
    IN  [k \in 1..Len(rows) |-> rows[k].id]

MeetsConstraints(id) ==
    LET time_constraint == parse_time_constraint(results.query)
        size_constraint == parse_size_constraint(results.query)
    IN  \E f \in db.files :
           /\ f.id = id
           /\ time_constraint.some =>
                 TimeOf(f, time_constraint.field) >= time_constraint.cutoff
           /\ size_constraint.some =>
                 SizeHolds(f.file_size, size_constraint.operator,
                           size_constraint.size_bytes)

\* C11: whatever the strategy that ran (Metadata, Fuzzy, or Semantic with
\* the embedding model), every record a search returns meets the time
\* constraint and the size constraint parsed from its query.
C11_ConstraintsFilter ==
    \A k \in 1..Len(results.ids) : MeetsConstraints(results.ids[k])

\* a Semantic search with a constraint returned records while the store
\* holds a record with a vector that does not meet the constraint
C11_SemanticFiltered ==
    /\ results.search_type = "semantic"
    /\ model
    /\ ConstraintRecognized
    /\ results.ids # <<>>
    /\ \E e \in db.embeddings : ~MeetsConstraints(e.file_id)
                                /\ \E f \in db.files : f.id = e.file_id

\* the record of the store with this id
RecordOf(id) == CHOOSE f \in db.files : f.id = id

\* the candidates of the search held in results: the records that meet the
\* constraints parsed from its query
Candidates == {f \in db.files : MeetsConstraints(f.id)}

\* the tokens of the residual text of the Fuzzy strategy
ResidualTokens == Split(fuzzy_query_clean(results.query))

\* the occurrences of the tokens in the lower-cased name, a space, and the
\* parent directory of the record
TokenScore(f) ==
    SumScores(ResidualTokens, Lower(f.file_name \o <<" ">> \o f.parent_directory))

\* the ids are those of n different records of the set, in an order in
\* which the key (a function of the record) never grows, and no record of
\* the set that is left out has a greater key than one that is returned
TopOf(ids, set, n, key) ==
    /\ Len(ids) = n
    /\ \A k \in 1..Len(ids) : \E f \in set : f.id = ids[k]
    /\ \A j, k \in 1..Len(ids) : j < k =>
          (ids[j] # ids[k] /\ key[RecordOf(ids[j])] >= key[RecordOf(ids[k])])
    /\ \A f \in set : (\A k \in 1..Len(ids) : ids[k] # f.id) =>
          \A k \in 1..Len(ids) : key[RecordOf(ids[k])] >= key[f]

Least(a, b) == IF a < b THEN a ELSE b

ScoreOf == [f \in db.files |-> TokenScore(f)]

ModifiedTime == [f \in db.files |-> f.modified_time]

\* C12: a Fuzzy search with residual text returns the candidates whose
\* token score is positive, the highest scores first, at most limit of them
\* and then those of the highest scores; with no residual text it returns
\* the candidates, the last modified first, at most limit of them.
C12_FuzzyRanking ==
    results.search_type = "fuzzy" =>
        IF ResidualTokens # <<>>
        THEN LET eligible == {f \in Candidates : TokenScore(f) > 0}
             IN  TopOf(results.ids, eligible,
                       Least(results.limit, Cardinality(eligible)), ScoreOf)
        ELSE TopOf(results.ids, Candidates,
                   Least(results.limit, Cardinality(Candidates)), ModifiedTime)

\* a Fuzzy search returned records of different scores and left out a
\* candidate without a score
C12_RankedByScore ==
    /\ results.search_type = "fuzzy"
    /\ ResidualTokens # <<>>
    /\ Len(results.ids) >= 2
    /\ TokenScore(RecordOf(results.ids[1])) > TokenScore(RecordOf(results.ids[2]))
    /\ \E f \in Candidates : TokenScore(f) = 0

\* the candidates of the search held in results that have a vector
EmbeddedCandidates == {f \in Candidates : \E e \in db.embeddings : e.file_id = f.id}

\* the similarity of the vector of the record with this id to the vector of
\* the query, as MoreSimilar compares it
SimilarityOf(id) ==
    LET e == CHOOSE x \in db.embeddings : x.file_id = id
    IN  <<Dot(Encode(results.query), e.embedding), Dot(e.embedding, e.embedding)>>

\* C13: with the embedding model, a Semantic search returns min(limit,
\* number of candidates) records (the candidates that have a vector are
\* counted), those of the highest similarity to the query, the most similar
\* first, also when scans without clear_old have written records again.
C13_SemanticRanking ==
    (results.search_type = "semantic" /\ model) =>
        /\ Len(results.ids) = Least(results.limit, Cardinality(EmbeddedCandidates))
        /\ \A k \in 1..Len(results.ids) : \E f \in EmbeddedCandidates : f.id = results.ids[k]
        /\ \A j, k \in 1..Len(results.ids) : j < k =>
              /\ results.ids[j] # results.ids[k]
              /\ ~MoreSimilar(SimilarityOf(results.ids[k]), SimilarityOf(results.ids[j]))
        /\ \A f \in EmbeddedCandidates :
              (\A k \in 1..Len(results.ids) : results.ids[k] # f.id) =>
                 \A k \in 1..Len(results.ids) :
                    ~MoreSimilar(SimilarityOf(f.id), SimilarityOf(results.ids[k]))

\* C14: parse_time_constraint of a query with the phrase "[in the] last N
\* unit" returns the cutoff now - N * (seconds of the unit), taken from the
\* first such phrase, and the field the words of the query speak of: created
\* before modified before accessed, modified when none is spoken of; of a
\* query without the phrase it returns no constraint.
C14_TimeConstraint ==
    call.op = "parse_time_constraint" =>
        IF call.input.phrase
        THEN /\ call.returned.some
             /\ call.returned.cutoff = Now - call.input.value * call.input.seconds
             /\ call.returned.field =
                   IF "created" \in call.input.mention THEN "created_time"
                   ELSE IF "modified" \in call.input.mention THEN "modified_time"
                   ELSE IF "accessed" \in call.input.mention THEN "accessed_time"
                   ELSE "modified_time"
        ELSE ~call.returned.some

\* a query that speaks of the access time and has two duration phrases was
\* parsed
C14_AccessedFirstPhrase ==
    /\ call.op = "parse_time_constraint"
    /\ call.returned.some
    /\ call.returned.field = "accessed_time"
    /\ call.returned.cutoff = Now - 10 * 2592000
    /\ Contains(call.input.text, <<"l","a","s","t"," ","3"," ","w","e","e","k","s">>)

\* the phrasing of the query of the call that comes first when the forms
\* are ranked by rank (a function of the place of the form in SizeForms)
FirstPhrase(rank) ==
    CHOOSE p \in call.input.phrases :
        \A q \in call.input.phrases : rank[p.form] <= rank[q.form]

\* the answer of parse_size_constraint is the operator of this phrasing and
\* the bytes of its number and unit
DecidedBy(p) ==
    /\ call.returned.some
    /\ call.returned.operator = SizeForms[p.form].operator
    /\ call.returned.size_bytes = p.bytes

\* C15 as stated: the phrasings are tried in the order of their description
\* (than-forms for <, than-forms for >, equal to, or less/smaller, or
\* more/larger/bigger, then the bare operators), and the first that matches
\* gives the operator and the bytes; a query without a phrasing gives no
\* constraint.
C15_SizeFirstListed ==
    call.op = "parse_size_constraint" =>
        IF call.input.phrases = {} THEN ~call.returned.some
        ELSE DecidedBy(FirstPhrase([k \in 1..Len(SizeForms) |-> k]))

\* C15 as amended: the phrasings are tried in the order of the list of the
\* source, in which "N unit or more" comes before "N unit or smaller".
C15_SizeFirstTried ==
    call.op = "parse_size_constraint" =>
        IF call.input.phrases = {} THEN ~call.returned.some
        ELSE DecidedBy(FirstPhrase([k \in 1..Len(SizeForms) |-> SizeForms[k].tried]))

\* a query with "or smaller" before "or more" was parsed, and "or more"
\* decided
C15_OrMoreBeforeOrSmaller ==
    /\ call.op = "parse_size_constraint"
    /\ call.input.text = <<"5"," ","m","b"," ","o","r"," ","s","m","a","l","l","e","r"," ","a","n","d"," ","2"," ","k","b"," ","o","r"," ","m","o","r","e">>
    /\ call.returned.operator = ">="
    /\ call.returned.size_bytes = 2048

\* a segment that starts with a dot and is longer than one character
IsHidden(segment) == StartsWith(segment, <<".">>) /\ Len(segment) > 1

\* C16 as stated: should_ignore_path returns true for every path, of a file
\* or of a directory, with a segment that is, without regard to case, in the
\* ignore set, and for every path of a directory with a hidden segment
\* (starts with a dot, longer than one character) that is not on the
\* allow-list.
C16_HiddenSegmentIgnored ==
    call.op = "should_ignore_path" =>
        LET segments == call.input.segments
            positions == 1..Len(segments)
        IN  /\ (\E k \in positions : Lower(segments[k]) \in ignore_dirs)
                   => call.returned
            /\ (/\ call.input.is_directory
                /\ \E k \in positions : /\ IsHidden(segments[k])
                                         /\ Lower(segments[k]) \notin allowed_hidden)
                   => call.returned

\* C16 as amended: the same, with the parent marker ".." not counted as a
\* hidden segment and the allow-list compared with the lower-cased segment.
C16_IgnoreRules ==
    call.op = "should_ignore_path" =>
        LET segments == call.input.segments
            positions == 1..Len(segments)
        IN  /\ (\E k \in positions : Lower(segments[k]) \in ignore_dirs)
                   => call.returned
            /\ (/\ call.input.is_directory
                /\ \E k \in positions : /\ IsHidden(segments[k])
                                         /\ segments[k] # <<".",".">>
                                         /\ Lower(segments[k]) \notin allowed_hidden)
                   => call.returned

\* the path of a file below a directory whose name is in the ignore set in
\* another case was tested and is ignored
C16_IgnoredByInnerSegment ==
    /\ call.op = "should_ignore_path"
    /\ call.input.segments = << <<"s","r","c">>, <<"N","o","d","e","_","M","o","d","u","l","e","s">>, <<"a",".","t","x","t">> >>
    /\ ~call.input.is_directory
    /\ call.returned

\* the path of a directory below a hidden directory was tested and is ignored
C16_IgnoredByHiddenParent ==
    /\ call.op = "should_ignore_path"
    /\ call.input.segments = << <<".","h","i","d","d","e","n">>, <<"s","r","c">> >>
    /\ call.input.is_directory
    /\ call.returned

\* the child directories of the tree that the filter says to ignore
IgnoredDirs ==
    UNION { {Join(d, n) : n \in {m \in Range(Tree(d).dirnames) :
                                    should_ignore_path(Join(d, m), TRUE)}} :
               d \in Directories }

\* the path lies below an ignored directory
Beneath(path) == \E d \in IgnoredDirs : StartsWith(path, d \o <<"/">>)

\* the directories the walk of root_path has to visit, and their files
Visited(root_path) ==
    {d \in Directories \ IgnoredDirs :
        (d = root_path \/ StartsWith(d, root_path \o <<"/">>)) /\ ~Beneath(d)}

\* C17: a scan never visits an ignored child directory nor queues it for a
\* visit; no file below one is listed, counted (total is the number of files
\* the loop has taken from the directories visited), fails, or is written or
\* recorded; and when the scan returns, skipped is one for each ignored
\* child of a visited directory plus one for each ignored file listed.
C17_PruneBeforeDescend ==
    /\ scan.pc = "walk" =>
          /\ scan.dirpath \notin IgnoredDirs /\ ~Beneath(scan.dirpath)
          /\ \A k \in 1..Len(scan.dirs) :
                 scan.dirs[k] \notin IgnoredDirs /\ ~Beneath(scan.dirs[k])
          /\ \A p \in scan.listed \cup scan.written \cup scan.statFailed : ~Beneath(p)
          /\ stats.total = Cardinality(scan.listed) - Len(scan.filenames)
          /\ \A f \in conn.files : ~Beneath(f.file_path)
    /\ last.outcome = "returned" =>
          /\ \A p \in last.listed \cup last.paths : ~Beneath(p)
          /\ last.stats.total = Cardinality(last.listed)
          /\ last.stats.total = last.stats.indexed + last.stats.errors
                                   + Cardinality(last.listed \ NonIgnored(last.listed))
          /\ last.stats.skipped =
                Cardinality({d \in IgnoredDirs :
                                \E v \in Visited(last.root_path) :
                                   \E n \in Range(Tree(v).dirnames) : d = Join(v, n)})
                + Cardinality(last.listed \ NonIgnored(last.listed))

\* a scan of /r returned: it went down into sub and wrote c.txt, and it
\* counted node_modules once (skipped is 2 with the ignored file t.tmp)
C17_SubVisitedModulesSkipped ==
    /\ last.outcome = "returned"
    /\ last.root_path = RootR
    /\ PathC \in last.written
    /\ last.stats.skipped = 2
    /\ last.stats.total = 4

\* the events of a scan with clear_old in the order C18 gives them
ClearOrder(callback) ==
    IF callback
    THEN <<"Clearing old index...", "deleted", "Starting indexing...", "visit", "write">>
    ELSE <<"deleted", "visit", "write">>

IsPrefix(s, t) == Len(s) <= Len(t) /\ s = SubSeq(t, 1, Len(s))

\* what C18 says of a scan: its events so far, its arguments, the paths of
\* the records before it, those it wrote, and those of the store it sees
ClearThenWalk(trace, clear_old, callback, cleared, before, written, paths) ==
    IF clear_old
    THEN /\ IsPrefix(trace, ClearOrder(callback))
         /\ cleared => paths = written
    ELSE /\ IsPrefix(trace, <<"visit", "write">>)
         /\ before \subseteq paths
         /\ written \subseteq paths

\* C18: in a scan with clear_old the status before the clear, the deletion,
\* the status after it, the first directory visit and the first record
\* written happen in this order, and once the tables are emptied the store
\* the scan sees holds the records this scan wrote and no others; in a scan
\* without clear_old nothing is deleted: every path recorded before the scan
\* stays recorded.
C18_ClearBeforeWalk ==
    /\ scan.pc # "idle" =>
          ClearThenWalk(scan.trace, scan.clear_old, scan.callback, scan.pc = "walk",
                        PathsOf(scan.before.files), scan.written, PathsOf(conn.files))
    /\ last.outcome = "returned" =>
          ClearThenWalk(last.trace, last.clear_old, last.callback, TRUE,
                        last.pathsBefore, last.written, last.paths)

\* a scan with clear_old and a callback, over a store that held a record,
\* returned after all five events
C18_ClearedThenWrote ==
    /\ last.outcome = "returned"
    /\ last.clear_old
    /\ last.callback
    /\ last.pathsBefore # {}
    /\ last.trace = ClearOrder(TRUE)

\* a scan without clear_old returned: it wrote records and kept the record
\* of a path it did not visit
C18_KeptWithoutClear ==
    /\ last.outcome = "returned"
    /\ ~last.clear_old
    /\ last.written # {}
    /\ last.pathsBefore \ last.written # {}

\* the search held in results was made by the application while a scan was
\* at this place
SearchedAt(pcs) == "observed" \in DOMAIN results /\ results.observed.pc \in pcs

\* what the search held in results finds in this store
FoundIn(store) ==
    Ids(search_files(store, model, results.query, results.search_type, results.limit))

\* C19 as stated, second half: a search made while the scan is writing
\* observes the store as repopulated so far, that is, it finds what the same
\* search finds among the records the scan has written by then.
C19_SeesPartialStore ==
    SearchedAt({"walk"}) => results.ids = FoundIn(results.observed.working)

\* C19 as amended: a search made while a clear-and-rescan runs finds what
\* the store held before the scan until the clear is committed, and nothing
\* from then until the scan returns, whatever the scan has written.
C19_SeesOldOrEmptyStore ==
    /\ SearchedAt({"clear"}) => results.ids = FoundIn(results.observed.before)
    /\ SearchedAt({"walk"}) => results.ids = <<>>

\* a search made after the scan had written records that match found nothing
C19_WrittenNotSeen ==
    /\ SearchedAt({"walk"})
    /\ results.observed.written # {}
    /\ FoundIn(results.observed.working) # <<>>
    /\ results.ids = <<>>

\* a search made after the clear, before any record was written, found
\* nothing where the store before the scan had a match
C19_EmptyStoreSeen ==
    /\ SearchedAt({"walk"})
    /\ results.observed.written = {}
    /\ FoundIn(results.observed.before) # <<>>
    /\ results.ids = <<>>

\* C20 as stated: when the label shows the counts of a counters message,
\* they are the counts the scan had when it sent the message.
C20_CountersAreSnapshots ==
    progress_var.text = "Indexing... counts" =>
        progress_var.stats = progress_var.emitted

\* C21: during a scan with a progress callback, every time the number of
\* processed files (total) reaches a multiple of 10 the callback is called,
\* whatever happened to the file that made the count reach the multiple
\* (indexed, skipped by the filter, or failed): the number of calls so far is
\* the number of multiples of 10 the count has reached.
C21_NotifiedAtEveryTen ==
    (scan.pc = "walk" /\ scan.callback) => scan.notified = stats.total \div 10

\* C22: the Metadata and the Fuzzy strategy derive the same residual text from
\* the same query, and a query made only of constraint phrases ("< 5 mb",
\* "last 2 days", "smaller than 2 kb") has an empty residual in both.
C22_ResidualText ==
    results # NoResults =>
        /\ metadata_query_clean(results.query) = fuzzy_query_clean(results.query)
        /\ results.query \in { <<"<"," ","5"," ","m","b">>, <<"l","a","s","t"," ","2"," ","d","a","y","s">>, <<"s","m","a","l","l","e","r"," ","t","h","a","n"," ","2"," ","k","b">> }
               => fuzzy_query_clean(results.query) = <<>>

\* C23: when hashing a file fails, or the embedding model fails for a file,
\* the record of the file is still written (without a hash, respectively
\* without a vector), the file is counted in indexed and not in errors, and
\* the scan goes on: it returns having written every file that is not ignored.
C23_FaultsTolerated ==
    /\ scan.pc = "walk" =>
          /\ scan.hashFailed \cup scan.encodeFailed \subseteq
                 scan.written \cap PathsOf(conn.files)
          /\ \A f \in conn.files :
                 /\ f.file_path \in scan.hashFailed => f.file_hash = "None"
                 /\ f.file_path \in scan.encodeFailed =>
                        \A e \in conn.embeddings : e.file_id # f.id
          /\ stats.indexed = Cardinality(scan.written)
          /\ stats.errors = Cardinality(scan.statFailed)
    /\ last.outcome = "returned" =>
          /\ last.written = NonIgnored(last.listed) \ last.statFailed
          /\ last.stats.indexed = Cardinality(last.written)
          /\ last.stats.errors = Cardinality(last.statFailed)

\* a scan returned in which the hash of one file and the embedding of
\* another failed, and a file after them was written whole
C23_FaultsAndWholeRecord ==
    /\ last.outcome = "returned"
    /\ last.hashFailed # {} /\ last.encodeFailed # {}
    /\ last.written \ (last.hashFailed \cup last.encodeFailed) # {}
    /\ last.stats.indexed = 3 /\ last.stats.errors = 0

\* C24: at every point of a scan indexed + errors <= total; when the scan
\* returns, every file it listed is exactly one of written (counted in
\* indexed), failed (counted in errors) or rejected by the filter, total is
\* indexed + errors + the number of rejected files, and skipped is the number
\* of rejected files plus the number of pruned child directories.
C24_CounterAccounting ==
    /\ scan.pc # "idle" => stats.indexed + stats.errors <= stats.total
    /\ last.outcome = "returned" =>
          LET rejected == CHOOSE files \in {last.listed \ NonIgnored(last.listed)} : TRUE
              pruned == {d \in IgnoredDirs :
                            \E v \in Visited(last.root_path) :
                               \E n \in Range(Tree(v).dirnames) : d = Join(v, n)}
          IN  /\ last.written \cup last.statFailed \cup rejected = last.listed
              /\ last.written \cap last.statFailed = {}
              /\ (last.written \cup last.statFailed) \cap rejected = {}
              /\ last.stats.indexed = Cardinality(last.written)
              /\ last.stats.errors = Cardinality(last.statFailed)
              /\ last.stats.total =
                    last.stats.indexed + last.stats.errors + Cardinality(rejected)
              /\ last.stats.skipped = Cardinality(rejected) + Cardinality(pruned)

\* a scan returned that indexed files, failed on one, rejected one and
\* pruned a directory
C24_EveryCounterMoved ==
    /\ last.outcome = "returned"
    /\ last.stats.indexed = 2 /\ last.stats.errors = 1
    /\ last.stats.skipped = 2 /\ last.stats.total = 4

\* C25: with the embedding model, every record a Semantic search returns has
\* a stored vector and a recorded size below 1 MiB (1048576 bytes); a search
\* whose size constraint admits only sizes of 1 MiB or more returns nothing.
C25_SemanticOwnsVector ==
    (results.search_type = "semantic" /\ model) =>
        /\ \A k \in 1..Len(results.ids) :
               /\ \E e \in db.embeddings : e.file_id = results.ids[k]
               /\ RecordOf(results.ids[k]).file_size < 1048576
        /\ LET size_constraint == parse_size_constraint(results.query)
           IN  (/\ size_constraint.some
                /\ size_constraint.operator \in {">", ">="}
                /\ size_constraint.size_bytes >= 1048576) => results.ids = <<>>

\* a Semantic search for "py larger than 1 mb" with the model, over a store
\* that holds a record of a Python file of more than 1 MiB, returned nothing
C25_LargeFileNotFound ==
    /\ results.search_type = "semantic" /\ model
    /\ results.query = <<"p","y"," ","l","a","r","g","e","r"," ","t","h","a","n"," ","1"," ","m","b">>
    /\ \E f \in db.files : f.file_path = PathB /\ f.file_size > 1048576
    /\ results.ids = <<>>

\* C26: the word that selects the time field stays in the residual text: in
\* Fuzzy the query "modified in the last 2 days" has the residual "modified",
\* and every record it returns has "modified" in its lower-cased name + " "
\* + parent directory.
C26_KeywordIsResidual ==
    (results.search_type = "fuzzy"
        /\ results.query = <<"m","o","d","i","f","i","e","d"," ","i","n"," ","t","h","e"," ","l","a","s","t"," ","2"," ","d","a","y","s">>) =>
        /\ fuzzy_query_clean(results.query) = <<"m","o","d","i","f","i","e","d">>
        /\ \A k \in 1..Len(results.ids) :
               LET row == RecordOf(results.ids[k])
               IN  Contains(Lower(row.file_name \o <<" ">> \o row.parent_directory),
                            <<"m","o","d","i","f","i","e","d">>)
====
